---- MODULE Spec2Model ----
(***************************************************************************)
(* A model of the YOLACT heads of mmdet/models/dense_heads/yolact_head.py  *)
(* and of the detector of mmdet/models/detectors/yolact.py.                *)
(*                                                                         *)
(* Tensors are sequences (1-based where the code is 0-based).  Each        *)
(* component has its own specification over the same variables; the        *)
(* variables of the other components rest at their idle values.            *)
(***************************************************************************)
EXTENDS Integers, Sequences, FiniteSets, TLC

VARIABLES
    pc,            \* position inside the call under check
    cfg,           \* head configuration: use_ohem, sampling, pos_weight, neg_pos_ratio
    batch,         \* the training batch handed to forward_train
    preds,         \* finiteness of the predictions of the box head
    targets,       \* what YOLACTHead.get_targets returned or raised
    head_loss,     \* what YOLACTHead.loss returned or raised
    train_out,     \* what YOLACT.forward_train returned or raised
    ohem_in,       \* the arguments of one YOLACTHead.loss_single_OHEM call
    ohem_out,      \* what that call computed
    segm_in,       \* the arguments of one YOLACTSegmHead.get_targets call
    segm_out,      \* what that call returned
    san_in,        \* the arguments of one sanitize_coordinates call
    san_out,       \* what that call returned
    mask_in,       \* the arguments of one YOLACTProtonet.forward call
    mask_out,      \* the caller's box tensors after the call, and its result
    bbox_in,       \* the arguments of one YOLACTHead.get_bboxes call
    bbox_out       \* what that call returned or raised

trainVars == <<cfg, batch, preds, targets, head_loss, train_out>>

ohemVars == <<ohem_in, ohem_out>>

segmVars == <<segm_in, segm_out>>

sanVars == <<san_in, san_out>>

maskVars == <<mask_in, mask_out>>

bboxVars == <<bbox_in, bbox_out>>

vars == <<pc, trainVars, ohemVars, segmVars, sanVars, maskVars, bboxVars>>

\* A component that is not under check rests
Idle == <<>>

TrainIdle ==
    /\ cfg = Idle /\ batch = Idle /\ preds = Idle
    /\ targets = Idle /\ head_loss = Idle /\ train_out = Idle

OhemIdle == ohem_in = Idle /\ ohem_out = Idle

SegmIdle == segm_in = Idle /\ segm_out = Idle

SanIdle == san_in = Idle /\ san_out = Idle

MaskIdle == mask_in = Idle /\ mask_out = Idle

BboxIdle == bbox_in = Idle /\ bbox_out = Idle

(***************************************************************************)
(* Bounds of the model.                                                    *)
(***************************************************************************)
MaxImgs == 2          \* images per batch (and entries per ground-truth list)
NumClasses == 2       \* num_classes; foreground labels are 0..NumClasses-1
OhemAnchors == 3      \* anchors of the image handed to loss_single_OHEM
MaxGts == 2           \* ground-truth instances of the image of the segmentation head
CoordDen == 2         \* a coordinate v is held as the integer v * CoordDen
MaxRel == 2           \* relative coordinates lie in -MaxRel..MaxRel
MaxSize == 2          \* img_size of sanitize_coordinates lies in 1..MaxSize
MaxPad == 1           \* padding of sanitize_coordinates lies in 0..MaxPad
MaxBoxes == 2         \* boxes per image handed to the mask head
MaxLevels == 3        \* pyramid levels of a get_bboxes call
TargetAnchors == 3    \* anchors of the image handed to _get_targets_single
MaxCands == 5         \* candidate boxes handed to Fast NMS
MaxOverlaps == 2      \* pairs of heavily overlapping candidate boxes

\* The anchor grid of the batch model: the anchor count of each pyramid level.
TrainLevelAnchors == <<1, 1>>
\* The ground-truth label lists an image of the batch model may carry.
TrainGtLabelLists == {<<>>, <<0>>, <<1>>}
ScenarioAnchors == 8     \* anchors of the image of the end-to-end scenario
MaxLevelAnchors == 2  \* anchors of one pyramid level in an assigner call
MaxPreCands == 3      \* candidates of one level before the pre-NMS filter

(***************************************************************************)
(* Generic helpers.                                                        *)
(***************************************************************************)
Min(a, b) == IF a <= b THEN a ELSE b

Max(a, b) == IF a >= b THEN a ELSE b

RECURSIVE SumSeq(_)
SumSeq(s) == IF s = <<>> THEN 0 ELSE Head(s) + SumSeq(Tail(s))

RECURSIVE CatSeqs(_)
\* torch.cat of a list of 1-D tensors
CatSeqs(ss) == IF ss = <<>> THEN <<>> ELSE Head(ss) \o CatSeqs(Tail(ss))

\* Python's None / a value, as the elements of a returned tuple
None == [none |-> TRUE, val |-> <<>>]

Some(v) == [none |-> FALSE, val |-> v]

RECURSIVE nonzero(_, _)
\* tensor.nonzero(): the (1-based) indices i, ascending, with flags[i] true;
\* `base` is the number of elements already passed
nonzero(flags, base) ==
    IF flags = <<>> THEN <<>>
    ELSE (IF Head(flags) THEN <<base + 1>> ELSE <<>>)
         \o nonzero(Tail(flags), base + 1)

RECURSIVE unmap(_, _, _)
\* mmdet.core.unmap: data of the inside anchors set back into a tensor with one
\* entry per anchor, every other entry being `fill`
unmap(data, inside_flags, fill) ==
    IF inside_flags = <<>> THEN <<>>
    ELSE IF Head(inside_flags)
         THEN <<Head(data)>> \o unmap(Tail(data), Tail(inside_flags), fill)
         ELSE <<fill>> \o unmap(data, Tail(inside_flags), fill)

\* mmdet.core.multi_apply: map(func, *args) stops at the shortest argument list,
\* and zip(*map_results) transposes the per-call tuples, stopping at the
\* shortest tuple
multi_apply(map_results) ==
    IF map_results = <<>> THEN <<>>
    ELSE LET lens == {Len(map_results[i]) : i \in 1..Len(map_results)}
             n == CHOOSE m \in lens : \A l \in lens : m <= l
         IN  [k \in 1..n |-> [i \in 1..Len(map_results) |-> map_results[i][k]]]

\* torch.stack needs tensors of one size
StackOk(target) == \A i, j \in 1..Len(target) : Len(target[i]) = Len(target[j])

RECURSIVE LevelSlices(_, _, _)
\* target[:, start:end] for every level; a slice past the end is cut short
LevelSlices(target, num_levels, start) ==
    IF num_levels = <<>> THEN <<>>
    ELSE LET end == start + Head(num_levels)
         IN  <<[i \in 1..Len(target) |->
                   SubSeq(target[i], start + 1, Min(end, Len(target[i])))]>>
             \o LevelSlices(target, Tail(num_levels), end)

\* mmdet.core.images_to_levels: per-image targets to per-level targets
images_to_levels(target, num_levels) == LevelSlices(target, num_levels, 0)

(***************************************************************************)
(* YOLACTHead: target assignment.                                          *)
(***************************************************************************)
background_label == NumClasses

\* The weight 1 on every positive anchor
PosLabelWeightAlwaysOne(pos_weight) == 1

\* label_weights[pos_inds]
PosLabelWeight(pos_weight) == IF pos_weight <= 0 THEN 1 ELSE pos_weight

\* PseudoSampler.sample on the assigner's gt_inds (> 0: the matched ground
\* truth, 0: background, -1: ignore)
PseudoSample(gt_inds) ==
    LET pos_inds == nonzero([i \in 1..Len(gt_inds) |-> gt_inds[i] > 0], 0)
        neg_inds == nonzero([i \in 1..Len(gt_inds) |-> gt_inds[i] = 0], 0)
    IN  [pos_inds |-> pos_inds,
         neg_inds |-> neg_inds,
         pos_assigned_gt_inds |-> [k \in 1..Len(pos_inds) |-> gt_inds[pos_inds[k]]]]

\* The anchors of one image that passed anchor_inside_flags, in anchor order
InsideAnchors(img) == nonzero(img.inside, 0)

\* The assigner's result for the inside anchors (the assigner is external: its
\* result for every anchor is an input of the image)
AssignResult(img) ==
    LET ins == InsideAnchors(img)
    IN  [k \in 1..Len(ins) |-> img.assigned[ins[k]]]

\* The positives alone carry a weight
LabelWeightNoNeg(is_pos, is_neg, pos_weight) ==
    IF is_pos THEN PosLabelWeight(pos_weight) ELSE 0

\* label_weights of one valid anchor: zero, unless the sampler put the anchor
\* in pos_inds or in neg_inds
LabelWeight(is_pos, is_neg, pos_weight) ==
    IF is_neg THEN 1
    ELSE IF is_pos THEN PosLabelWeight(pos_weight)
    ELSE 0

\* Every valid anchor weighs in the box loss
BboxWeightAlwaysOne(is_pos) == 1

\* bbox_weights of one valid anchor, the same on its four coordinates: zero,
\* unless the sampler put the anchor in pos_inds
BboxWeight(is_pos) == IF is_pos THEN 1 ELSE 0

\* Every positive takes the foreground label 1
PosLabelAlwaysOne(img, gt_ind) == 1

\* labels[pos_inds]: the class of the assigned ground truth, or 1 when the
\* call was given no labels
PosLabel(img, gt_ind) ==
    IF img.gt_labels_given THEN img.gt_labels[gt_ind] ELSE 1

\* YOLACTHead._get_targets_single: the tuple returned for one image
GetTargetsSingle(img, c, unmap_outputs) ==
    IF \A a \in 1..Len(img.inside) : ~img.inside[a]
    THEN <<None, None, None, None, None, None>>
    ELSE
    LET gt_inds == AssignResult(img)
        num_valid_anchors == Len(gt_inds)
        sampling_result == PseudoSample(gt_inds)
        pos == {sampling_result.pos_inds[k] : k \in 1..Len(sampling_result.pos_inds)}
        neg == {sampling_result.neg_inds[k] : k \in 1..Len(sampling_result.neg_inds)}
        \* the encoded box delta of a positive anchor is named by its ground truth
        bbox_targets == [a \in 1..num_valid_anchors |->
                            IF a \in pos THEN gt_inds[a] ELSE 0]
        bbox_weights == [a \in 1..num_valid_anchors |-> BboxWeight(a \in pos)]
        labels == [a \in 1..num_valid_anchors |->
                      IF a \in pos THEN PosLabel(img, gt_inds[a])
                      ELSE background_label]
        label_weights == [a \in 1..num_valid_anchors |->
                             LabelWeight(a \in pos, a \in neg, c.pos_weight)]
    IN  IF unmap_outputs
        THEN <<Some(unmap(labels, img.inside, background_label)),
               Some(unmap(label_weights, img.inside, 0)),
               Some(unmap(bbox_targets, img.inside, 0)),
               Some(unmap(bbox_weights, img.inside, 0)),
               Some(sampling_result.pos_inds),
               Some(sampling_result.neg_inds),
               Some(sampling_result)>>
        ELSE <<Some(labels), Some(label_weights), Some(bbox_targets),
               Some(bbox_weights), Some(sampling_result.pos_inds),
               Some(sampling_result.neg_inds), Some(sampling_result)>>

\* The plain number of indices over the images of a batch
NumTotalNoFloor(inds_list) ==
    SumSeq([i \in 1..Len(inds_list) |-> Len(inds_list[i].val)])

\* num_total_pos / num_total_neg of get_targets
NumTotal(inds_list) ==
    SumSeq([i \in 1..Len(inds_list) |-> Max(Len(inds_list[i].val), 1)])

\* What a call that raised or returned None leaves in place of its result
NoTargets(exc, none) ==
    [exc |-> exc, none |-> none,
     labels_list |-> <<>>, label_weights_list |-> <<>>,
     bbox_targets_list |-> <<>>, bbox_weights_list |-> <<>>,
     num_total_pos |-> 0, num_total_neg |-> 0, sampling_results |-> <<>>]

Vals(list) == [i \in 1..Len(list) |-> list[i].val]

\* YOLACTHead.get_targets
GetTargets(b, c, num_level_anchors, unmap_outputs) ==
    LET num_calls == Min(b.num_imgs, b.gt_len)
        map_results == [i \in 1..num_calls |->
                           GetTargetsSingle(b.imgs[i], c, unmap_outputs)]
        results == multi_apply(map_results)
    IN  IF Len(results) < 7
        THEN NoTargets("ValueError", FALSE)   \* not enough values to unpack
        ELSE
        LET all_labels == results[1]
            all_label_weights == results[2]
            all_bbox_targets == results[3]
            all_bbox_weights == results[4]
            pos_inds_list == results[5]
            neg_inds_list == results[6]
            sampling_results_list == results[7]
        IN  IF \E i \in 1..Len(all_labels) : all_labels[i].none
            THEN NoTargets("", TRUE)
            ELSE IF ~StackOk(Vals(all_labels))
            THEN NoTargets("RuntimeError", FALSE)   \* torch.stack
            ELSE [exc |-> "", none |-> FALSE,
                  labels_list |->
                      images_to_levels(Vals(all_labels), num_level_anchors),
                  label_weights_list |->
                      images_to_levels(Vals(all_label_weights), num_level_anchors),
                  bbox_targets_list |->
                      images_to_levels(Vals(all_bbox_targets), num_level_anchors),
                  bbox_weights_list |->
                      images_to_levels(Vals(all_bbox_weights), num_level_anchors),
                  num_total_pos |-> NumTotal(pos_inds_list),
                  num_total_neg |-> NumTotal(neg_inds_list),
                  sampling_results |-> Vals(sampling_results_list)]

(***************************************************************************)
(* YOLACTHead: the classification and box loss.                            *)
(***************************************************************************)
\* The negative budget without the fallback for an image without positives
NumNegSamplesNoFallback(num_pos_samples, num_neg, neg_pos_ratio) ==
    IF neg_pos_ratio * num_pos_samples > num_neg THEN num_neg
    ELSE neg_pos_ratio * num_pos_samples

\* num_neg_samples of loss_single_OHEM
NumNegSamples(num_pos_samples, num_neg, neg_pos_ratio) ==
    IF num_pos_samples = 0 THEN num_neg
    ELSE IF neg_pos_ratio * num_pos_samples > num_neg THEN num_neg
    ELSE neg_pos_ratio * num_pos_samples

\* The position of a largest element of a non-empty tensor (the first one on a tie)
ArgMax(values, among) ==
    CHOOSE i \in among :
        /\ \A j \in among : values[i] >= values[j]
        /\ \A j \in among : values[j] = values[i] => i <= j

RECURSIVE TopKFrom(_, _, _)
TopKFrom(values, k, among) ==
    IF k = 0 THEN <<>>
    ELSE LET i == ArgMax(values, among)
         IN  <<i>> \o TopKFrom(values, k - 1, among \ {i})

\* tensor.topk(k): the positions of the k largest elements, largest first
topk(values, k) == TopKFrom(values, k, 1..Len(values))

\* YOLACTHead.loss_single_OHEM for one image; ce[i] is the unweighted
\* cross-entropy of anchor i, so loss_cls_all = ce * label_weights
LossSingleOHEM(ce, labels, label_weights, bbox_weights, neg_pos_ratio, num_total_samples) ==
    LET loss_cls_all == [i \in 1..Len(labels) |-> ce[i] * label_weights[i]]
        pos_inds == nonzero([i \in 1..Len(labels) |->
                                labels[i] >= 0 /\ labels[i] < background_label], 0)
        neg_inds == nonzero([i \in 1..Len(labels) |->
                                labels[i] = background_label], 0)
        num_pos_samples == Len(pos_inds)
        num_neg_samples == NumNegSamples(num_pos_samples, Len(neg_inds),
                                         neg_pos_ratio)
        neg_losses == [k \in 1..Len(neg_inds) |-> loss_cls_all[neg_inds[k]]]
        top == topk(neg_losses, num_neg_samples)
        topk_loss_cls_neg == [k \in 1..Len(top) |-> neg_losses[top[k]]]
    IN  [pos_inds |-> pos_inds,
         neg_inds |-> neg_inds,
         num_neg_samples |-> num_neg_samples,
         \* the anchors whose loss topk selected
         hard_neg_inds |-> [k \in 1..Len(top) |-> neg_inds[top[k]]],
         loss_cls_pos |-> SumSeq([k \in 1..Len(pos_inds) |->
                                     loss_cls_all[pos_inds[k]]]),
         loss_cls_neg |-> SumSeq(topk_loss_cls_neg),
         \* loss_cls = (loss_cls_pos + loss_cls_neg) / cls_divisor
         cls_divisor |-> num_total_samples,
         \* loss_bbox(..., avg_factor=num_total_samples)
         bbox_avg_factor |-> num_total_samples,
         bbox_weight_sum |-> SumSeq(bbox_weights)]

\* What a loss call that raised or returned None leaves in place of its result
NoLoss(exc, none) ==
    [exc |-> exc, none |-> none, losses |-> <<>>, finite |-> TRUE,
     sampling_results |-> <<>>]

\* torch.cat(list, -1).view(num_images, -1): the rows of the view
ViewRows(level_list, num_images) ==
    LET num_rows == IF level_list = <<>> THEN 0 ELSE Len(level_list[1])
        flat == CatSeqs([i \in 1..num_rows |->
                    CatSeqs([l \in 1..Len(level_list) |-> level_list[l][i]])])
        row_len == Len(flat) \div num_images
    IN  [r \in 1..num_images |->
            SubSeq(flat, (r - 1) * row_len + 1, r * row_len)]

ViewOk(level_list, num_images) ==
    LET num_rows == IF level_list = <<>> THEN 0 ELSE Len(level_list[1])
        total == SumSeq([l \in 1..Len(level_list) |->
                     SumSeq([i \in 1..num_rows |-> Len(level_list[l][i])])])
    IN  total % num_images = 0

\* A check of the class scores alone
PredsFiniteClsOnly(p) ==
    p.cls_finite

\* The two assertions of the use_ohem branch: torch.isfinite(...).all() of
\* the class scores and of the box predictions
PredsFinite(p) ==
    p.cls_finite /\ p.bbox_finite

\* The use_ohem branch of YOLACTHead.loss
LossOHEM(b, c, p, t, num_level_anchors) ==
    LET num_images == b.num_imgs
        num_anchors == SumSeq(num_level_anchors)
    IN  IF ~ViewOk(t.labels_list, num_images)
        THEN NoLoss("RuntimeError", FALSE)   \* view: shape is invalid
        ELSE
        LET all_labels == ViewRows(t.labels_list, num_images)
            all_label_weights == ViewRows(t.label_weights_list, num_images)
            all_bbox_weights == ViewRows(t.bbox_weights_list, num_images)
        IN  IF ~PredsFinite(p)
            THEN NoLoss("AssertionError", FALSE)
            ELSE IF \E i \in 1..num_images : Len(all_labels[i]) # num_anchors
            THEN NoLoss("ValueError", FALSE)   \* cross_entropy: batch sizes differ
            ELSE [exc |-> "", none |-> FALSE,
                  losses |-> [i \in 1..num_images |->
                      LossSingleOHEM([a \in 1..num_anchors |-> 1],
                                     all_labels[i], all_label_weights[i],
                                     all_bbox_weights[i], c.neg_pos_ratio,
                                     t.num_total_pos)],
                  finite |-> TRUE,
                  sampling_results |-> t.sampling_results]

\* The branch of YOLACTHead.loss without hard-negative mining: one
\* loss_single call per pyramid level
LossPerLevel(b, c, p, t, num_level_anchors) ==
    LET num_total_samples == IF c.sampling
                             THEN t.num_total_pos + t.num_total_neg
                             ELSE t.num_total_pos
    IN  IF \E l \in 1..Len(num_level_anchors) :
               SumSeq([i \in 1..Len(t.labels_list[l]) |->
                          Len(t.labels_list[l][i])])
               # b.num_imgs * num_level_anchors[l]
        THEN NoLoss("ValueError", FALSE)   \* cross_entropy: batch sizes differ
        ELSE [exc |-> "", none |-> FALSE,
              losses |-> [l \in 1..Len(num_level_anchors) |->
                  [cls_divisor |-> num_total_samples,
                   bbox_avg_factor |-> num_total_samples]],
              finite |-> p.cls_finite /\ p.bbox_finite,
              sampling_results |-> t.sampling_results]

\* YOLACTHead.loss after its get_targets call returned t
Loss(b, c, p, t, num_level_anchors) ==
    IF t.exc # "" THEN NoLoss(t.exc, FALSE)
    ELSE IF t.none THEN NoLoss("", TRUE)
    ELSE IF c.use_ohem THEN LossOHEM(b, c, p, t, num_level_anchors)
    ELSE LossPerLevel(b, c, p, t, num_level_anchors)

(***************************************************************************)
(* One YOLACTHead.loss_single_OHEM call.                                   *)
(***************************************************************************)
\* The unweighted cross-entropy values of the model
OhemCeValues == {1, 2}

\* The configured neg_pos_ratio values of the model
OhemRatios == {1, 3}

OhemInputs ==
    {[labels |-> l, ce |-> c, label_weights |-> w, neg_pos_ratio |-> r,
      num_total_samples |-> 1] :
        <<l, c, w, r>> \in [1..OhemAnchors -> {0, NumClasses - 1, background_label}]
                          \X [1..OhemAnchors -> OhemCeValues]
                          \X [1..OhemAnchors -> 0..1] \X OhemRatios}

InitOhem ==
    /\ pc = "ohem_call"
    /\ ohem_in \in OhemInputs
    /\ ohem_out = Idle
    /\ TrainIdle /\ SegmIdle /\ SanIdle /\ MaskIdle /\ BboxIdle

OhemCall ==
    /\ pc = "ohem_call"
    /\ ohem_out' = LossSingleOHEM(ohem_in.ce, ohem_in.labels, ohem_in.label_weights,
                      [a \in 1..Len(ohem_in.labels) |->
                          IF ohem_in.labels[a] < background_label THEN 1 ELSE 0],
                      ohem_in.neg_pos_ratio, ohem_in.num_total_samples)
    /\ pc' = "ohem_done"
    /\ UNCHANGED <<ohem_in, trainVars, segmVars, sanVars, maskVars, bboxVars>>

SpecOhem == InitOhem /\ [][OhemCall]_vars

RECURSIVE SumOver(_, _)
\* The sum of f[i] over the indices i of a finite set
SumOver(f, S) ==
    IF S = {} THEN 0
    ELSE LET i == CHOOSE x \in S : TRUE IN f[i] + SumOver(f, S \ {i})

SeqRange(s) == {s[k] : k \in 1..Len(s)}

\* The per-anchor classification loss of the call, computed on its arguments
OhemAnchorLoss == [a \in 1..Len(ohem_in.labels) |->
                      ohem_in.ce[a] * ohem_in.label_weights[a]]

OhemPositives == {a \in 1..Len(ohem_in.labels) :
                     ohem_in.labels[a] \in 0..(NumClasses - 1)}

OhemBackground == {a \in 1..Len(ohem_in.labels) :
                      ohem_in.labels[a] = background_label}

\* The negative budget the claim states
OhemBudget ==
    IF OhemPositives = {} THEN Cardinality(OhemBackground)
    ELSE Min(ohem_in.neg_pos_ratio * Cardinality(OhemPositives),
             Cardinality(OhemBackground))

\* C5: the negatives that enter the classification loss are k background
\* anchors none of which has a lower loss than a background anchor left out,
\* with k = N if P = 0 and min(neg_pos_ratio * P, N) otherwise; every positive
\* contributes.
C5_HardestNegativesSelected ==
    pc = "ohem_done" =>
        LET chosen == SeqRange(ohem_out.hard_neg_inds)
        IN  /\ Len(ohem_out.hard_neg_inds) = OhemBudget
            /\ Cardinality(chosen) = OhemBudget
            /\ chosen \subseteq OhemBackground
            /\ \A i \in chosen : \A j \in OhemBackground \ chosen :
                   OhemAnchorLoss[i] >= OhemAnchorLoss[j]
            /\ ohem_out.loss_cls_neg = SumOver(OhemAnchorLoss, chosen)
            /\ SeqRange(ohem_out.pos_inds) = OhemPositives
            /\ ohem_out.loss_cls_pos = SumOver(OhemAnchorLoss, OhemPositives)

\* C5 witness: with a positive present the budget left out a background
\* anchor of strictly lower loss than a chosen one.
C5_Witness ==
    /\ pc = "ohem_done"
    /\ OhemPositives # {}
    /\ \E i \in SeqRange(ohem_out.hard_neg_inds) :
           \E j \in OhemBackground \ SeqRange(ohem_out.hard_neg_inds) :
               OhemAnchorLoss[i] > OhemAnchorLoss[j]

(***************************************************************************)
(* YOLACTSegmHead.get_targets.                                             *)
(***************************************************************************)
\* The segmentation map of the model is SegmH x SegmW cells; a ground-truth
\* mask has twice that resolution
SegmShape == <<1, 1>>

\* F.interpolate(mode='bilinear', align_corners=False) to half the size,
\* followed by gt(0.5): the centre of an output cell lies between four input
\* pixels, each with weight 1/4
Downsample(mask, mask_h, mask_w) ==
    [r \in 1..mask_h |-> [c \in 1..mask_w |->
        IF 2 * (mask[2 * r - 1][2 * c - 1] + mask[2 * r - 1][2 * c]
                + mask[2 * r][2 * c - 1] + mask[2 * r][2 * c]) > 4
        THEN 1 ELSE 0]]

\* Python's tensor[index] on a dimension of `size`: a negative index counts
\* from the end (1-based result; 0 when the index is out of range)
PyIndex(index, size) ==
    IF index >= 0 /\ index < size THEN index + 1
    ELSE IF index < 0 /\ index >= -size THEN index + size + 1
    ELSE 0

RECURSIVE SegmAccumulate(_, _, _, _)
\* The loop over obj_idx: segm_targets[gt_labels[obj_idx] - 1] =
\* max(segm_targets[gt_labels[obj_idx] - 1], downsampled_masks[obj_idx])
SegmAccumulate(segm_targets, downsampled_masks, gt_labels, obj_idx) ==
    IF obj_idx > Len(downsampled_masks) THEN segm_targets
    ELSE LET ch == PyIndex(gt_labels[obj_idx] - 1, Len(segm_targets))
             merged == [r \in 1..Len(segm_targets[ch]) |->
                          [c \in 1..Len(segm_targets[ch][r]) |->
                              Max(segm_targets[ch][r][c],
                                  downsampled_masks[obj_idx][r][c])]]
         IN  SegmAccumulate([segm_targets EXCEPT ![ch] = merged],
                            downsampled_masks, gt_labels, obj_idx + 1)

\* YOLACTSegmHead.get_targets for a prediction of shape
\* (num_classes, mask_h, mask_w)
SegmGetTargets(num_classes, mask_h, mask_w, gt_masks, gt_labels) ==
    IF Len(gt_masks) = 0 THEN None
    ELSE LET downsampled_masks ==
                 [o \in 1..Len(gt_masks) |-> Downsample(gt_masks[o], mask_h, mask_w)]
             zeros == [ch \in 1..num_classes |->
                          [r \in 1..mask_h |-> [c \in 1..mask_w |-> 0]]]
         IN  Some(SegmAccumulate(zeros, downsampled_masks, gt_labels, 1))

\* A tensor of the shape of the prediction, filled with v
SegmFull(num_classes, mask_h, mask_w, v) ==
    [ch \in 1..num_classes |-> [r \in 1..mask_h |-> [c \in 1..mask_w |-> v]]]

\* One iteration of the loop of YOLACTSegmHead.loss: the target and the
\* element weights handed to loss_segm (no weight given: every element 1)
SegmLossImage(num_classes, mask_h, mask_w, gt_masks, gt_labels) ==
    LET segm_targets == SegmGetTargets(num_classes, mask_h, mask_w, gt_masks,
                                       gt_labels)
    IN  IF segm_targets.none
        THEN [target |-> SegmFull(num_classes, mask_h, mask_w, 0),
              weight |-> SegmFull(num_classes, mask_h, mask_w, 0)]
        ELSE [target |-> segm_targets.val,
              weight |-> SegmFull(num_classes, mask_h, mask_w, 1)]

SegmMasks == [1..(2 * SegmShape[1]) -> [1..(2 * SegmShape[2]) -> 0..1]]

SegmInputs ==
    {[gt_masks |-> m, gt_labels |-> l] :
        <<m, l>> \in
            {t \in (UNION {[1..n -> SegmMasks] : n \in 0..MaxGts})
                   \X (UNION {[1..n -> 0..(NumClasses - 1)] : n \in 0..MaxGts}) :
                Len(t[1]) = Len(t[2])}}

InitSegm ==
    /\ pc = "segm_call"
    /\ segm_in \in SegmInputs
    /\ segm_out = Idle
    /\ TrainIdle /\ OhemIdle /\ SanIdle /\ MaskIdle /\ BboxIdle

SegmCall ==
    /\ pc = "segm_call"
    /\ segm_out' = SegmGetTargets(NumClasses, SegmShape[1], SegmShape[2],
                                  segm_in.gt_masks, segm_in.gt_labels)
    /\ pc' = "segm_done"
    /\ UNCHANGED <<segm_in, trainVars, ohemVars, sanVars, maskVars, bboxVars>>

SpecSegm == InitSegm /\ [][SegmCall]_vars

\* C4: in a segmentation target that was built, channel c is 1 on a cell
\* exactly when an instance of label c has a downsampled, thresholded mask
\* covering the cell.
C4_ChannelIsClassLabel ==
    (pc = "segm_done" /\ ~segm_out.none) =>
        \A c \in 0..(NumClasses - 1) :
            \A r \in 1..SegmShape[1] : \A col \in 1..SegmShape[2] :
                (segm_out.val[c + 1][r][col] = 1)
                <=> \E o \in 1..Len(segm_in.gt_masks) :
                        /\ segm_in.gt_labels[o] = c
                        /\ Downsample(segm_in.gt_masks[o], SegmShape[1],
                                      SegmShape[2])[r][col] = 1

(***************************************************************************)
(* YOLACTProtonet.sanitize_coordinates.                                    *)
(***************************************************************************)
\* tensor.long() on a coordinate: the fraction is cut off, towards zero
Long(v) ==
    IF v >= 0 THEN (v \div CoordDen) * CoordDen
    ELSE -(((-v) \div CoordDen) * CoordDen)

\* sanitize_coordinates on one pair of relative coordinates; img_size and
\* padding are whole numbers
sanitize_coordinates(x1, x2, img_size, padding, cast) ==
    LET scaled1 == x1 * img_size
        scaled2 == x2 * img_size
        cast1 == IF cast THEN Long(scaled1) ELSE scaled1
        cast2 == IF cast THEN Long(scaled2) ELSE scaled2
        min1 == Min(cast1, cast2)          \* x1 = torch.min(x1, x2)
        max2 == Max(min1, cast2)           \* x2 = torch.max(x1, x2), on the new x1
    IN  <<Max(min1 - padding * CoordDen, 0),
          Min(max2 + padding * CoordDen, img_size * CoordDen)>>

SanInputs ==
    [x1 : (-MaxRel * CoordDen)..(MaxRel * CoordDen),
     x2 : (-MaxRel * CoordDen)..(MaxRel * CoordDen),
     img_size : 1..MaxSize, padding : 0..MaxPad, cast : BOOLEAN]

InitSan ==
    /\ pc = "san_call"
    /\ san_in \in SanInputs
    /\ san_out = Idle
    /\ TrainIdle /\ OhemIdle /\ SegmIdle /\ MaskIdle /\ BboxIdle

SanCall ==
    /\ pc = "san_call"
    /\ san_out' = sanitize_coordinates(san_in.x1, san_in.x2, san_in.img_size,
                                       san_in.padding, san_in.cast)
    /\ pc' = "san_done"
    /\ UNCHANGED <<san_in, trainVars, ohemVars, segmVars, maskVars, bboxVars>>

SpecSan == InitSan /\ [][SanCall]_vars

\* C3: for every pair of relative coordinates, every size and every padding
\* the result (lo, hi) has lo <= hi, 0 <= lo <= size and 0 <= hi <= size.
C3_SanitizedInBounds ==
    pc = "san_done" =>
        /\ san_out[1] <= san_out[2]
        /\ 0 <= san_out[1] /\ san_out[1] <= san_in.img_size * CoordDen
        /\ 0 <= san_out[2] /\ san_out[2] <= san_in.img_size * CoordDen


\* C27: sanitize_coordinates orders its inputs: for coordinates given in
\* reverse order (x1 > x2) the interval before padding and clamping is
\* [x2 * size, x1 * size], so the result is that of the same box with its
\* coordinates in the right order.
C27_ReversedInputsAreSwapped ==
    (pc = "san_done" /\ san_in.x1 > san_in.x2) =>
        LET lo == IF san_in.cast THEN Long(san_in.x2 * san_in.img_size)
                  ELSE san_in.x2 * san_in.img_size
            hi == IF san_in.cast THEN Long(san_in.x1 * san_in.img_size)
                  ELSE san_in.x1 * san_in.img_size
        IN  /\ san_out = <<Max(lo - san_in.padding * CoordDen, 0),
                           Min(hi + san_in.padding * CoordDen,
                               san_in.img_size * CoordDen)>>
            /\ san_out = sanitize_coordinates(san_in.x2, san_in.x1,
                                              san_in.img_size, san_in.padding,
                                              san_in.cast)

(***************************************************************************)
(* YOLACTProtonet.forward and crop.                                        *)
(***************************************************************************)
\* torch.sigmoid at the coefficients of the model, in hundredths
sigmoid(x) == CASE x < 0 -> 27 [] x = 0 -> 50 [] x > 0 -> 73

\* The prototype maps of the model are ProtoShape[1] x ProtoShape[2] cells
ProtoShape == <<2, 2>>

\* YOLACTProtonet.crop: of mask n the cells inside the sanitized, padded box
\* are kept (1), the others are set to zero (0); boxes are relative
crop(h, w, boxes, padding) ==
    [n \in 1..Len(boxes) |->
        LET x == sanitize_coordinates(boxes[n][1], boxes[n][3], w, padding, FALSE)
            y == sanitize_coordinates(boxes[n][2], boxes[n][4], h, padding, FALSE)
        IN  [row \in 1..h |-> [col \in 1..w |->
                IF /\ (col - 1) * CoordDen >= x[1]
                   /\ (col - 1) * CoordDen < x[2]
                   /\ (row - 1) * CoordDen >= y[1]
                   /\ (row - 1) * CoordDen < y[2]
                THEN 1 ELSE 0]]]

\* bboxes_for_cropping[:, 0] /= w ... [:, 3] /= h, in place
DivideInPlace(boxes, h, w) ==
    [n \in 1..Len(boxes) |->
        <<boxes[n][1] \div w, boxes[n][2] \div h,
          boxes[n][3] \div w, boxes[n][4] \div h>>]

\* The tensor bboxes_for_cropping names, and whether it is the caller's own
\* tensor (cur_bboxes itself) or a copy (indexing followed by clone())
BoxesForCropping(training, cur_bboxes, pos_assigned_gt_inds) ==
    IF ~training
    THEN [shared |-> TRUE, boxes |-> cur_bboxes]
    ELSE [shared |-> FALSE,
          boxes |-> [k \in 1..Len(pos_assigned_gt_inds) |->
                        cur_bboxes[pos_assigned_gt_inds[k]]]]

\* The body of the loop of YOLACTProtonet.forward for one image: the caller's
\* box tensor after the iteration, and the cropped mask of every instance
ProtonetForwardImage(training, cur_bboxes, img_shape, pos_assigned_gt_inds) ==
    LET picked == BoxesForCropping(training, cur_bboxes, pos_assigned_gt_inds)
        divided == DivideInPlace(picked.boxes, img_shape[1], img_shape[2])
    IN  [bboxes |-> IF picked.shared THEN divided ELSE cur_bboxes,
         mask_pred |-> crop(ProtoShape[1], ProtoShape[2], divided, 1)]

\* YOLACTProtonet.forward over the images of the call
ProtonetForward(training, bboxes, img_meta, sampling_results) ==
    [idx \in 1..Len(bboxes) |->
        ProtonetForwardImage(training, bboxes[idx], img_meta[idx],
                             sampling_results[idx])]

\* The relative boxes of the model: the whole image, its first cell, all but
\* its first cell, and a box of no width
MaskRelBoxes ==
    {<<0, 0, CoordDen, CoordDen>>, <<0, 0, 1, 1>>,
     <<1, 1, CoordDen, CoordDen>>, <<1, 0, 1, CoordDen>>}

\* A call of the mask head on one image of shape (h, w): boxes in pixels, and,
\* in training, for every positive anchor the ground truth assigned to it
MaskInputs ==
    {[training |-> t, img_meta |-> <<<<h, w>>>>,
      bboxes |-> <<[n \in 1..Len(rel) |->
                      <<rel[n][1] * w, rel[n][2] * h, rel[n][3] * w, rel[n][4] * h>>]>>,
      sampling_results |-> <<g>>] :
        <<t, h, w, rel, g>> \in
            {u \in BOOLEAN \X (1..MaxSize) \X (1..MaxSize)
                    \X (UNION {[1..n -> MaskRelBoxes] : n \in 0..MaxBoxes})
                    \X (UNION {[1..n -> 1..MaxBoxes] : n \in 0..MaxBoxes}) :
                /\ \A k \in 1..Len(u[5]) : u[5][k] <= Len(u[4])
                /\ ~u[1] => u[5] = <<>>}}

InitMask ==
    /\ pc = "mask_call"
    /\ mask_in \in MaskInputs
    /\ mask_out = Idle
    /\ TrainIdle /\ OhemIdle /\ SegmIdle /\ SanIdle /\ BboxIdle

MaskCall ==
    /\ pc = "mask_call"
    /\ mask_out' = ProtonetForward(mask_in.training, mask_in.bboxes,
                                   mask_in.img_meta, mask_in.sampling_results)
    /\ pc' = "mask_done"
    /\ UNCHANGED <<mask_in, trainVars, ohemVars, segmVars, sanVars, bboxVars>>

SpecMask == InitMask /\ [][MaskCall]_vars

\* C10: after YOLACTProtonet.forward returns, every element of the bboxes
\* argument has the value it had before the call, in training and in
\* inference mode.
C10_BoxesNotMutated ==
    pc = "mask_done" =>
        \A idx \in 1..Len(mask_in.bboxes) :
            mask_out[idx].bboxes = mask_in.bboxes[idx]


\* crop with the box's x extent applied to the rows and its y extent to the
\* columns
CropMasksTransposed(masks, boxes, padding) ==
    LET h == Len(masks[1])
        w == Len(masks[1][1])
        crop_mask == crop(w, h, boxes, padding)
    IN  [n \in 1..Len(masks) |-> [row \in 1..h |-> [col \in 1..w |->
            IF col <= h /\ row <= w
            THEN masks[n][row][col] * crop_mask[n][col][row]
            ELSE 0]]]

\* What crop returns: masks * crop_mask.float(); masks[n] is the H x W map
\* of instance n
CropMasks(masks, boxes, padding) ==
    LET h == Len(masks[1])
        w == Len(masks[1][1])
        crop_mask == crop(h, w, boxes, padding)
    IN  [n \in 1..Len(masks) |-> [row \in 1..h |-> [col \in 1..w |->
            masks[n][row][col] * crop_mask[n][row][col]]]]

\* The maps handed to crop: sigmoid values (hundredths), none of them zero
CropMaps(n, h, w) ==
    [k \in 1..n |-> [row \in 1..h |-> [col \in 1..w |->
        sigmoid(((row + 2 * col + k) % 3) - 1)]]]

\* Relative coordinates of the model: below the image, its low edge, inside
\* it, its high edge and beyond it
CropCoords == {-CoordDen, 0, 1, CoordDen, CoordDen + 1}

\* A call of crop: one box of any coordinates, reversed ones included, and
\* perhaps a second box of MaskRelBoxes
CropInputs ==
    {[masks |-> CropMaps(Len(bs), h, w), boxes |-> bs, padding |-> p] :
        <<bs, h, w, p>> \in
            ({<<b>> : b \in CropCoords \X CropCoords \X CropCoords \X CropCoords}
                \cup {<<b, r>> : <<b, r>> \in
                        (CropCoords \X CropCoords \X CropCoords \X CropCoords)
                            \X MaskRelBoxes})
                \X (1..MaxSize) \X (1..MaxSize) \X (0..MaxPad)}

InitCrop ==
    /\ pc = "crop_call"
    /\ mask_in \in CropInputs
    /\ mask_out = Idle
    /\ TrainIdle /\ OhemIdle /\ SegmIdle /\ SanIdle /\ BboxIdle

CropCall ==
    /\ pc = "crop_call"
    /\ mask_out' = CropMasks(mask_in.masks, mask_in.boxes, mask_in.padding)
    /\ pc' = "crop_done"
    /\ UNCHANGED <<mask_in, trainVars, ohemVars, segmVars, sanVars, bboxVars>>

SpecCrop == InitCrop /\ [][CropCall]_vars

\* The sanitized, padded extents of box n: <<x1, x2>> and <<y1, y2>>
CropExtentX(n) ==
    sanitize_coordinates(mask_in.boxes[n][1], mask_in.boxes[n][3],
                         Len(mask_in.masks[1][1]), mask_in.padding, FALSE)

CropExtentY(n) ==
    sanitize_coordinates(mask_in.boxes[n][2], mask_in.boxes[n][4],
                         Len(mask_in.masks[1]), mask_in.padding, FALSE)

\* Box n reaches strictly beyond the image on its four sides
CropBoxBeyondImage(n) ==
    /\ mask_in.boxes[n][1] < 0 /\ mask_in.boxes[n][2] < 0
    /\ mask_in.boxes[n][3] > CoordDen /\ mask_in.boxes[n][4] > CoordDen

GetBboxes(n_cls, n_bbox, n_coeff, num_levels, num_imgs) ==
    IF n_cls # n_bbox
    THEN [exc |-> "AssertionError", used |-> <<>>]   \* len(cls_scores) == len(bbox_preds)
    ELSE IF n_cls # num_levels
    THEN [exc |-> "AssertionError", used |-> <<>>]   \* len(mlvl_anchors)
    ELSE IF n_coeff < n_cls
    THEN [exc |-> "IndexError", used |-> <<>>]       \* coeff_preds[i]
    ELSE [exc |-> "",
          used |-> [img_id \in 1..num_imgs |->
                       [cls |-> n_cls, bbox |-> n_cls, coeff |-> n_cls]]]

BboxInputs ==
    [n_cls : 1..MaxLevels, n_bbox : 1..MaxLevels, n_coeff : 1..MaxLevels,
     num_levels : 1..MaxLevels, num_imgs : 1..MaxImgs]

InitBbox ==
    /\ pc = "bbox_call"
    /\ bbox_in \in BboxInputs
    /\ bbox_out = Idle
    /\ TrainIdle /\ OhemIdle /\ SegmIdle /\ SanIdle /\ MaskIdle

BboxCall ==
    /\ pc = "bbox_call"
    /\ bbox_out' = GetBboxes(bbox_in.n_cls, bbox_in.n_bbox, bbox_in.n_coeff,
                             bbox_in.num_levels, bbox_in.num_imgs)
    /\ pc' = "bbox_done"
    /\ UNCHANGED <<bbox_in, trainVars, ohemVars, segmVars, sanVars, maskVars>>

SpecBbox == InitBbox /\ [][BboxCall]_vars

\* C9: a list of per-level predictions whose length differs from the number
\* of anchor levels always makes the call raise; it is never cut down to the
\* common prefix.
C9_LengthMismatchRaises ==
    (/\ pc = "bbox_done"
     /\ \/ bbox_in.n_cls # bbox_in.num_levels
        \/ bbox_in.n_bbox # bbox_in.num_levels
        \/ bbox_in.n_coeff # bbox_in.num_levels)
    => bbox_out.exc # ""

(***************************************************************************)
(* Fast NMS, the last step of YOLACTHead._get_bboxes_single.               *)
(***************************************************************************)
\* The score of candidate i for the class of label c - 1: descending in i for
\* the labels 0, 2, ..., ascending for the labels 1, 3, ...; no two are equal
NmsScore(i, c) ==
    IF c % 2 = 1 THEN 100 - 10 * i - (c - 1) ELSE 35 + 10 * i + (c - 1)

\* The IoU of the boxes of candidates i and j, in percent: `overlap` holds the
\* pairs of heavily overlapping boxes
NmsIoU(overlap, i, j) ==
    IF <<i, j>> \in overlap \/ <<j, i>> \in overlap THEN 95 ELSE 0

\* The largest element of a set of IoUs; 0 for the empty set
SetMax(S) ==
    IF S = {} THEN 0 ELSE CHOOSE m \in S : \A x \in S : m >= x

\* Steps (1)-(4) alone: no score threshold on the boxes kept
FastNmsClassNoScoreThr(n, overlap, c, score_thr, iou_thr, top_k) ==
    LET scores == [i \in 1..n |-> NmsScore(i, c)]
        idx == topk(scores, Min(top_k, n))
        iou_max == [j \in 1..Len(idx) |->
                       SetMax({NmsIoU(overlap, idx[i], idx[j]) : i \in 1..(j - 1)})]
    IN  [idx |-> idx,
         keep |-> [j \in 1..Len(idx) |-> iou_max[j] <= iou_thr]]

\* The lower triangle in place of the upper one: each box sees the
\* lower-scoring boxes
FastNmsClassLowerTriangle(n, overlap, c, score_thr, iou_thr, top_k) ==
    LET scores == [i \in 1..n |-> NmsScore(i, c)]
        idx == topk(scores, Min(top_k, n))
        iou_max == [j \in 1..Len(idx) |->
                       SetMax({NmsIoU(overlap, idx[i], idx[j]) :
                                  i \in (j + 1)..Len(idx)})]
    IN  [idx |-> idx,
         keep |-> [j \in 1..Len(idx) |->
                      iou_max[j] <= iou_thr /\ scores[idx[j]] > score_thr]]

\* The triangle taken one row too low: the highest-scoring box suppresses
\* nothing
FastNmsClassSkipFirst(n, overlap, c, score_thr, iou_thr, top_k) ==
    LET scores == [i \in 1..n |-> NmsScore(i, c)]
        idx == topk(scores, Min(top_k, n))
        iou_max == [j \in 1..Len(idx) |->
                       SetMax({NmsIoU(overlap, idx[i], idx[j]) : i \in 2..(j - 1)})]
    IN  [idx |-> idx,
         keep |-> [j \in 1..Len(idx) |->
                      iou_max[j] <= iou_thr /\ scores[idx[j]] > score_thr]]

\* Steps (1)-(5) for the class of column c: the candidates in descending
\* order of score, cut to top_k, and for each whether it is kept
FastNmsClass(n, overlap, c, score_thr, iou_thr, top_k) ==
    LET scores == [i \in 1..n |-> NmsScore(i, c)]
        idx == topk(scores, Min(top_k, n))
        \* the largest IoU with a higher-scoring box (upper triangle, no diagonal)
        iou_max == [j \in 1..Len(idx) |->
                       SetMax({NmsIoU(overlap, idx[i], idx[j]) : i \in 1..(j - 1)})]
    IN  [idx |-> idx,
         keep |-> [j \in 1..Len(idx) |->
                      iou_max[j] <= iou_thr /\ scores[idx[j]] > score_thr]]

\* The kept candidates of the class of column c, in descending order of score
FastNmsKept(n, overlap, c, score_thr, iou_thr, top_k) ==
    LET r == FastNmsClass(n, overlap, c, score_thr, iou_thr, top_k)
        at == nonzero(r.keep, 0)
    IN  [k \in 1..Len(at) |-> r.idx[at[k]]]

\* The positions, among the merged survivors, of the detections returned:
\* the max_num highest scores over all classes, highest first
NmsFinalIdx(scores, max_num) ==
    topk(scores, Min(max_num, Len(scores)))

\* The survivors' vectors in class order, without the final sort
NmsGatherCoeffsUnsorted(coeffs, idx) ==
    [k \in 1..Len(idx) |-> coeffs[k]]

\* The mask coefficients of the detections returned: the survivors' vectors,
\* taken at the positions of the final sort
NmsGatherCoeffs(coeffs, idx) ==
    [k \in 1..Len(idx) |-> coeffs[idx[k]]]

\* fast_nms(multi_bboxes, multi_scores, multi_coeffs, score_thr, iou_thr,
\* top_k, max_num) on n candidates; a box and a coefficient vector are named
\* by the candidate they belong to
FastNms(n, overlap, score_thr, iou_thr, top_k, max_num) ==
    LET kept == [c \in 1..NumClasses |->
                    FastNmsKept(n, overlap, c, score_thr, iou_thr, top_k)]
        classes == CatSeqs([c \in 1..NumClasses |->
                               [k \in 1..Len(kept[c]) |-> c - 1]])
        boxes == CatSeqs(kept)
        coeffs == CatSeqs(kept)
        scores == CatSeqs([c \in 1..NumClasses |->
                              [k \in 1..Len(kept[c]) |-> NmsScore(kept[c][k], c)]])
        idx == NmsFinalIdx(scores, max_num)
    IN  [det_bboxes |-> [k \in 1..Len(idx) |-> boxes[idx[k]]],
         det_scores |-> [k \in 1..Len(idx) |-> scores[idx[k]]],
         det_labels |-> [k \in 1..Len(idx) |-> classes[idx[k]]],
         det_coeffs |-> NmsGatherCoeffs(coeffs, idx)]

\* cfg.score_thr, cfg.iou_thr, cfg.top_k and cfg.max_per_img of the model
NmsScoreThrs == {0, 50, 70, 100}

NmsIouThrs == {50, 95}

NmsTopKs == {2, MaxCands}

NmsMaxNums == {1, 3, NumClasses * MaxCands}

NmsInputs ==
    UNION {[n : {n},
            overlap : {o \in SUBSET {p \in (1..n) \X (1..n) : p[1] < p[2]} :
                          Cardinality(o) <= MaxOverlaps},
            score_thr : NmsScoreThrs, iou_thr : NmsIouThrs,
            top_k : NmsTopKs, max_num : NmsMaxNums] : n \in 1..MaxCands}

InitNms ==
    /\ pc = "nms_call"
    /\ bbox_in \in NmsInputs
    /\ bbox_out = Idle
    /\ TrainIdle /\ OhemIdle /\ SegmIdle /\ SanIdle /\ MaskIdle

NmsCall ==
    /\ pc = "nms_call"
    /\ bbox_out' = FastNms(bbox_in.n, bbox_in.overlap, bbox_in.score_thr,
                           bbox_in.iou_thr, bbox_in.top_k, bbox_in.max_num)
    /\ pc' = "nms_done"
    /\ UNCHANGED <<bbox_in, trainVars, ohemVars, segmVars, sanVars, maskVars>>

SpecNms == InitNms /\ [][NmsCall]_vars

(***************************************************************************)
(* Properties of Fast NMS.                                                 *)
(***************************************************************************)
\* The positions of the detections returned
NmsDets == 1..Len(bbox_out.det_bboxes)

\* The boxes returned with the label of column c
NmsReturned(c) ==
    {bbox_out.det_bboxes[k] : k \in {d \in NmsDets : bbox_out.det_labels[d] = c - 1}}

\* Candidate i is among the top_k scores of column c
NmsInTopK(i, c) ==
    Cardinality({j \in 1..bbox_in.n : NmsScore(j, c) > NmsScore(i, c)})
        < bbox_in.top_k

\* The boxes of column c that score higher than box i, are within top_k and
\* overlap with it by more than iou_thr
NmsSuppressors(i, c) ==
    {j \in 1..bbox_in.n :
        /\ NmsScore(j, c) > NmsScore(i, c)
        /\ NmsInTopK(j, c)
        /\ NmsIoU(bbox_in.overlap, j, i) > bbox_in.iou_thr}

\* Candidate i survives steps (1)-(5) for column c
NmsSurvives(i, c) ==
    /\ NmsInTopK(i, c)
    /\ NmsScore(i, c) > bbox_in.score_thr
    /\ NmsSuppressors(i, c) = {}

NmsSurvivors ==
    {p \in (1..bbox_in.n) \X (1..NumClasses) : NmsSurvives(p[1], p[2])}

RECURSIVE ClassicKeeps(_, _)
\* Classic sequential NMS on column c: a box is kept when no higher-scoring
\* box that was itself kept overlaps with it by more than iou_thr
ClassicKeeps(i, c) ==
    /\ NmsInTopK(i, c)
    /\ NmsScore(i, c) > bbox_in.score_thr
    /\ \A j \in NmsSuppressors(i, c) : ~ClassicKeeps(j, c)

\* The call returned every survivor: the global truncation cut nothing
NmsUntruncated ==
    /\ pc = "nms_done"
    /\ Len(bbox_out.det_bboxes) < bbox_in.max_num

\* C11: the output of Fast NMS holds no detection whose score is below the
\* score threshold, and the score returned is the candidate's own.
C11_NoDetectionBelowThreshold ==
    pc = "nms_done" =>
        \A k \in NmsDets :
            /\ bbox_out.det_scores[k] >= bbox_in.score_thr
            /\ bbox_out.det_scores[k]
                   = NmsScore(bbox_out.det_bboxes[k], bbox_out.det_labels[k] + 1)

\* C11 witness: detections were returned although some candidate of their
\* class scored below the threshold.
C11_Witness ==
    /\ pc = "nms_done"
    /\ NmsDets # {}
    /\ \E k \in NmsDets : \E i \in 1..bbox_in.n :
           NmsScore(i, bbox_out.det_labels[k] + 1) < bbox_in.score_thr

\* The scenario of five candidates of which the second overlaps the first
NmsScenario ==
    /\ pc = "nms_done"
    /\ bbox_in.n = 5
    /\ bbox_in.overlap = {<<1, 2>>}
    /\ bbox_in.iou_thr = 50
    /\ bbox_in.score_thr = 0
    /\ bbox_in.top_k >= 5
    /\ bbox_in.max_num >= 5 * NumClasses

\* C12: of two detections of one class, the lower-scoring one overlaps the
\* higher-scoring one by at most iou_thr; with five candidates scored 90, 80,
\* 70, 60, 50 of which the second has IoU 0.95 with the first and iou_thr 0.5,
\* the second is suppressed and the others survive.
C12_KeptPairsBelowIouThreshold ==
    /\ pc = "nms_done" =>
        \A k1, k2 \in NmsDets :
            (/\ bbox_out.det_labels[k1] = bbox_out.det_labels[k2]
             /\ bbox_out.det_scores[k1] > bbox_out.det_scores[k2])
            => NmsIoU(bbox_in.overlap, bbox_out.det_bboxes[k2],
                      bbox_out.det_bboxes[k1]) <= bbox_in.iou_thr
    /\ NmsScenario => NmsReturned(1) = {1, 3, 4, 5}

\* C12 witness: the scenario, with its scores, was run.
C12_Witness ==
    /\ NmsScenario
    /\ [i \in 1..5 |-> NmsScore(i, 1)] = <<90, 80, 70, 60, 50>>
    /\ 2 \notin NmsReturned(1)

\* C13: at most max_num detections are returned, they are the highest-scoring
\* survivors over all classes, and every entry holds the box, the label and
\* the coefficients of one candidate.
C13_TopDetectionsKeepAssociation ==
    pc = "nms_done" =>
        LET returned == {<<bbox_out.det_bboxes[k], bbox_out.det_labels[k] + 1>> :
                            k \in NmsDets}
        IN  /\ Len(bbox_out.det_bboxes) <= bbox_in.max_num
            /\ Len(bbox_out.det_bboxes)
                   = Min(bbox_in.max_num, Cardinality(NmsSurvivors))
            /\ Len(bbox_out.det_labels) = Len(bbox_out.det_bboxes)
            /\ Len(bbox_out.det_coeffs) = Len(bbox_out.det_bboxes)
            /\ Len(bbox_out.det_scores) = Len(bbox_out.det_bboxes)
            /\ returned \subseteq NmsSurvivors
            /\ Cardinality(returned) = Len(bbox_out.det_bboxes)
            /\ \A p \in NmsSurvivors \ returned : \A q \in returned :
                   NmsScore(p[1], p[2]) <= NmsScore(q[1], q[2])
            /\ \A k \in NmsDets :
                /\ bbox_out.det_coeffs[k] = bbox_out.det_bboxes[k]
                /\ bbox_out.det_scores[k]
                       = NmsScore(bbox_out.det_bboxes[k], bbox_out.det_labels[k] + 1)

\* C13 witness: survivors of two classes were merged and cut to max_num.
C13_Witness ==
    /\ pc = "nms_done"
    /\ Cardinality(NmsSurvivors) > bbox_in.max_num
    /\ \E k1, k2 \in NmsDets : bbox_out.det_labels[k1] # bbox_out.det_labels[k2]

\* C14 as stated: where Fast NMS and classic NMS differ on a box, Fast NMS
\* keeps it and classic NMS suppresses it; a box whose only suppressor is
\* itself suppressed first is such a box.
C14_ErrsByKeeping ==
    NmsUntruncated =>
        \A c \in 1..NumClasses : \A i \in 1..bbox_in.n :
            /\ (i \in NmsReturned(c)) # ClassicKeeps(i, c)
               => (i \in NmsReturned(c) /\ ~ClassicKeeps(i, c))
            /\ (/\ NmsInTopK(i, c)
                /\ NmsScore(i, c) > bbox_in.score_thr
                /\ NmsSuppressors(i, c) # {}
                /\ \A j \in NmsSuppressors(i, c) : ~ClassicKeeps(j, c))
               => (i \in NmsReturned(c) /\ ~ClassicKeeps(i, c))

\* C14 amended: Fast NMS never keeps a box that classic NMS suppresses; where
\* the two differ Fast NMS suppresses a box that classic NMS keeps, and a box
\* all of whose suppressors are themselves suppressed first is such a box.
C14_ErrsBySuppressing ==
    NmsUntruncated =>
        \A c \in 1..NumClasses : \A i \in 1..bbox_in.n :
            /\ i \in NmsReturned(c) => ClassicKeeps(i, c)
            /\ (/\ NmsInTopK(i, c)
                /\ NmsScore(i, c) > bbox_in.score_thr
                /\ NmsSuppressors(i, c) # {}
                /\ \A j \in NmsSuppressors(i, c) : ~ClassicKeeps(j, c))
               => (i \notin NmsReturned(c) /\ ClassicKeeps(i, c))

\* C14 witness: a box whose only suppressor is itself suppressed first.
C14_Witness ==
    /\ NmsUntruncated
    /\ \E c \in 1..NumClasses : \E i \in 1..bbox_in.n :
        /\ NmsInTopK(i, c)
        /\ NmsScore(i, c) > bbox_in.score_thr
        /\ Cardinality(NmsSuppressors(i, c)) = 1
        /\ \A j \in NmsSuppressors(i, c) : ~ClassicKeeps(j, c)
        /\ i \notin NmsReturned(c)

(***************************************************************************)
(* YOLACTProtonet.loss: the mask loss.                                     *)
(***************************************************************************)
\* The default of max_masks_to_train
MaxMasksToTrain == 100

\* Every positive as it comes: no cap on the masks trained
MaskSelectNoCap(num_pos, max_masks_to_train, select) ==
    [k \in 1..num_pos |-> k]

\* The positives of one image that enter the mask loss, as positions in
\* pos_assigned_gt_inds; select is perm[:max_masks_to_train] of the
\* permutation drawn
MaskSelect(num_pos, max_masks_to_train, select) ==
    IF num_pos > max_masks_to_train THEN select
    ELSE [k \in 1..num_pos |-> k]

\* The plain sum of the counts
MaskTotalPosNoFloor(num_pos_list) ==
    SumSeq(num_pos_list)

\* total_pos after the loop: the sum of the images' num_pos, 1 if that is 0
MaskTotalPos(num_pos_list) ==
    IF SumSeq(num_pos_list) = 0 THEN 1 ELSE SumSeq(num_pos_list)

\* The first ground-truth indices, whatever positions were drawn
MaskGtIndsUnselected(pos_assigned_gt_inds, used) ==
    SubSeq(pos_assigned_gt_inds, 1, Len(used))

\* pos_assigned_gt_inds[select]: the ground-truth indices of the positives
\* at the positions used
MaskGtInds(pos_assigned_gt_inds, used) ==
    [k \in 1..Len(used) |-> pos_assigned_gt_inds[used[k]]]

\* One iteration of the loop of YOLACTProtonet.loss: the positives used,
\* their ground truths, and the branch that computes the image's loss.
\* mask_pred names the positive of each prediction trained (the forward pass
\* made one prediction per positive, in the order of pos_inds), mask_targets
\* and gt_bboxes_for_reweight name the ground truth whose downsampled mask
\* and box each of them meets
MaskLossImage(img, max_masks_to_train, select) ==
    LET used == MaskSelect(Len(img.pos_assigned_gt_inds), max_masks_to_train,
                           select)
        cur_mask_pred == used
        pos_assigned_gt_inds == MaskGtInds(img.pos_assigned_gt_inds, used)
        num_pos == Len(pos_assigned_gt_inds)
        gt_bboxes_for_reweight == pos_assigned_gt_inds
        mask_targets == IF img.num_gts = 0 THEN None
                        ELSE Some(pos_assigned_gt_inds)
    IN  [used |-> used,
         mask_pred |-> cur_mask_pred,
         pos_assigned_gt_inds |-> pos_assigned_gt_inds,
         gt_bboxes_for_reweight |-> gt_bboxes_for_reweight,
         mask_targets |-> mask_targets,
         num_pos |-> num_pos,
         kind |-> IF num_pos = 0 THEN "zero"              \* cur_mask_pred.sum() * 0.
                  ELSE IF mask_targets.none THEN "zero_weight"
                  ELSE "weighted_bce"]

\* YOLACTProtonet.loss: loss_mask, one entry per image, each divided by
\* total_pos
ProtonetLoss(imgs, max_masks_to_train, selects) ==
    LET per_image == [idx \in 1..Len(imgs) |->
                         MaskLossImage(imgs[idx], max_masks_to_train, selects[idx])]
        total_pos == MaskTotalPos([idx \in 1..Len(imgs) |-> per_image[idx].num_pos])
    IN  [idx \in 1..Len(imgs) |->
            [used |-> per_image[idx].used,
             mask_pred |-> per_image[idx].mask_pred,
             pos_assigned_gt_inds |-> per_image[idx].pos_assigned_gt_inds,
             gt_bboxes_for_reweight |-> per_image[idx].gt_bboxes_for_reweight,
             mask_targets |-> per_image[idx].mask_targets,
             kind |-> per_image[idx].kind,
             divisor |-> total_pos]]

\* perm[:k] for the permutations perm of 1..n
PermPrefixes(n, k) ==
    {q \in [1..k -> 1..n] : \A a, b \in 1..k : a # b => q[a] # q[b]}

RECURSIVE MaskSelections(_, _)
\* What torch.randperm may leave in select, image by image; an image under
\* the cap draws no permutation
MaskSelections(imgs, max_masks_to_train) ==
    IF imgs = <<>> THEN {<<>>}
    ELSE LET num_pos == Len(Head(imgs).pos_assigned_gt_inds)
             first == IF num_pos > max_masks_to_train
                      THEN PermPrefixes(num_pos, max_masks_to_train)
                      ELSE {<<>>}
         IN  {<<q>> \o rest : q \in first,
                              rest \in MaskSelections(Tail(imgs), max_masks_to_train)}

\* The numbers of positives of an image of the model
MaskPosCounts == {0, 1, 2, 5}

\* max_masks_to_train of the model; 100 is the default
MaskCaps == {1, 2, 100}

\* An image with num_gts ground truths and num_pos positives, positive k
\* being assigned to ground truth ((k - 1) mod num_gts) + 1
MaskLossImages ==
    {[num_gts |-> g,
      pos_assigned_gt_inds |-> [k \in 1..n |-> ((k - 1) % g) + 1]] :
        <<g, n>> \in (1..MaxGts) \X MaskPosCounts}
    \cup {[num_gts |-> 0, pos_assigned_gt_inds |-> <<>>]}

MaskLossInputs ==
    {[max_masks_to_train |-> m, imgs |-> im] :
        <<m, im>> \in MaskCaps \X UNION {[1..k -> MaskLossImages] : k \in 1..MaxImgs}}

InitMaskLoss ==
    /\ pc = "mloss_call"
    /\ mask_in \in MaskLossInputs
    /\ mask_out = Idle
    /\ TrainIdle /\ OhemIdle /\ SegmIdle /\ SanIdle /\ BboxIdle

MaskLossCall ==
    /\ pc = "mloss_call"
    /\ \E selects \in MaskSelections(mask_in.imgs, mask_in.max_masks_to_train) :
        mask_out' = ProtonetLoss(mask_in.imgs, mask_in.max_masks_to_train, selects)
    /\ pc' = "mloss_done"
    /\ UNCHANGED <<mask_in, trainVars, ohemVars, segmVars, sanVars, bboxVars>>

SpecMaskLoss == InitMaskLoss /\ [][MaskLossCall]_vars

\* The number of positives of image idx of the mask-loss call
MaskNumPos(idx) == Len(mask_in.imgs[idx].pos_assigned_gt_inds)

\* C15: the number of instances of an image that enter the mask loss is
\* min(num_pos, max_masks_to_train), and they are distinct positives of the
\* image; with a cap of 2 and 5 positives exactly 2 are used.
C15_MaskCountIsCapped ==
    pc = "mloss_done" =>
        \A idx \in 1..Len(mask_in.imgs) :
            LET used == mask_out[idx].used
            IN  /\ Len(used) = Min(MaskNumPos(idx), mask_in.max_masks_to_train)
                /\ Cardinality(SeqRange(used)) = Len(used)
                /\ SeqRange(used) \subseteq 1..MaskNumPos(idx)
                /\ \A k \in 1..Len(used) :
                       mask_out[idx].pos_assigned_gt_inds[k]
                           = mask_in.imgs[idx].pos_assigned_gt_inds[used[k]]
                /\ (MaskNumPos(idx) = 5 /\ mask_in.max_masks_to_train = 2)
                   => Cardinality(SeqRange(used)) = 2

\* C15 witness: 5 positives under a cap of 2, the permutation not the
\* identity.
C15_Witness ==
    /\ pc = "mloss_done"
    /\ mask_in.max_masks_to_train = 2
    /\ \E idx \in 1..Len(mask_in.imgs) :
        /\ MaskNumPos(idx) = 5
        /\ mask_out[idx].used = <<4, 2>>

\* C16: every image's mask loss is divided by the same number, max(1, sum
\* over the images of min(num_pos, max_masks_to_train)), which is not zero.
C16_MaskDivisorIsTrainedCount ==
    pc = "mloss_done" =>
        LET trained == SumSeq([idx \in 1..Len(mask_in.imgs) |->
                                  Min(MaskNumPos(idx), mask_in.max_masks_to_train)])
        IN  /\ Len(mask_out) = Len(mask_in.imgs)
            /\ \A idx \in 1..Len(mask_out) :
                /\ mask_out[idx].divisor = Max(1, trained)
                /\ mask_out[idx].divisor # 0

\* C16 witness: a batch of two images, one over the cap and one without
\* positives.
C16_Witness ==
    /\ pc = "mloss_done"
    /\ \E i, j \in 1..Len(mask_in.imgs) :
        /\ MaskNumPos(i) > mask_in.max_masks_to_train
        /\ MaskNumPos(j) = 0
        /\ mask_out[i].divisor = mask_in.max_masks_to_train


\* C28: when the cap on the masks trained triggers, one selection serves the
\* predictions and the ground-truth indices: every prediction trained is
\* compared with the mask, and reweighted by the box, of the ground truth
\* its positive anchor was assigned to, and the positions selected are
\* pairwise distinct.
C28_SelectionKeepsPairs ==
    pc = "mloss_done" =>
        \A idx \in 1..Len(mask_in.imgs) :
            MaskNumPos(idx) > mask_in.max_masks_to_train =>
                LET out == mask_out[idx]
                    n == Len(out.mask_pred)
                IN  /\ n = mask_in.max_masks_to_train
                    /\ ~out.mask_targets.none
                    /\ Len(out.mask_targets.val) = n
                    /\ Len(out.gt_bboxes_for_reweight) = n
                    /\ \A k \in 1..n :
                        LET gt == mask_in.imgs[idx].pos_assigned_gt_inds[out.mask_pred[k]]
                        IN  /\ out.mask_targets.val[k] = gt
                            /\ out.gt_bboxes_for_reweight[k] = gt
                    /\ \A a, b \in 1..n : a # b => out.mask_pred[a] # out.mask_pred[b]

\* C28 witness: a cap of 2 on 5 positives of 2 ground truths; the positives
\* drawn are not the first ones and belong to different ground truths
C28_Witness ==
    /\ pc = "mloss_done"
    /\ mask_in.max_masks_to_train = 2
    /\ \E idx \in 1..Len(mask_in.imgs) :
        /\ MaskNumPos(idx) = 5
        /\ mask_out[idx].mask_pred = <<4, 1>>
        /\ mask_out[idx].mask_targets.val = <<2, 1>>
        /\ mask_out[idx].gt_bboxes_for_reweight = <<2, 1>>


(***************************************************************************)
(* YOLACTHead._get_bboxes_single: the per-level filter before Fast NMS.    *)
(***************************************************************************)
\* The score row of a candidate: cls_out_channels columns, which under
\* softmax end with the background column. One foreground column holds fg,
\* the others 1; the background column holds bg
PreScoreRow(fg, bg, use_sigmoid_cls) ==
    [c \in 1..(IF use_sigmoid_cls THEN NumClasses ELSE NumClasses + 1) |->
        IF c = NumClasses + 1 THEN bg
        ELSE IF c = (fg % NumClasses) + 1 THEN fg
        ELSE 1]

\* The maximum over every column, the background one included
MaxScoresAllColumns(scores, use_sigmoid_cls) ==
    [k \in 1..Len(scores) |-> SetMax(SeqRange(scores[k]))]

\* max_scores: scores.max(dim=1) under sigmoid, scores[:, :-1].max(dim=1)
\* under softmax
MaxScores(scores, use_sigmoid_cls) ==
    [k \in 1..Len(scores) |->
        IF use_sigmoid_cls THEN SetMax(SeqRange(scores[k]))
        ELSE SetMax(SeqRange(SubSeq(scores[k], 1, Len(scores[k]) - 1)))]

\* What max_scores.topk(k) may give as indices: k distinct positions, by
\* descending value, none left out that beats one taken; ties in any order
TopkOutcomes(values, k) ==
    {q \in PermPrefixes(Len(values), k) :
        /\ \A a, b \in 1..k : a < b => values[q[a]] >= values[q[b]]
        /\ \A j \in 1..Len(values) :
            (\A a \in 1..k : q[a] # j) => values[j] <= values[q[k]]}

\* tensor[topk_inds, :]
IndexRows(tensor, inds) == [k \in 1..Len(inds) |-> tensor[inds[k]]]

\* One iteration of the loop of _get_bboxes_single: what the level appends
\* to mlvl_bboxes, mlvl_scores and mlvl_coeffs. A decoded box is named by
\* its anchor and its delta; topk_inds is the outcome of topk, if taken
PreFilterLevel(anchors, bbox_pred, scores, coeff_pred, use_sigmoid_cls, nms_pre, topk_inds) ==
    LET filter == nms_pre > 0 /\ Len(scores) > nms_pre
        anchors_kept == IF filter THEN IndexRows(anchors, topk_inds) ELSE anchors
        bbox_pred_kept == IF filter THEN IndexRows(bbox_pred, topk_inds) ELSE bbox_pred
        scores_kept == IF filter THEN IndexRows(scores, topk_inds) ELSE scores
        coeff_pred_kept == IF filter THEN IndexRows(coeff_pred, topk_inds) ELSE coeff_pred
    IN  [bboxes |-> [k \in 1..Len(anchors_kept) |->
                        <<anchors_kept[k], bbox_pred_kept[k]>>],
         scores |-> scores_kept,
         coeffs |-> coeff_pred_kept]

\* The outcomes of topk the filter may see; no draw when the filter is off
PreTopkInds(scores, use_sigmoid_cls, nms_pre) ==
    IF nms_pre > 0 /\ Len(scores) > nms_pre
    THEN TopkOutcomes(MaxScores(scores, use_sigmoid_cls), nms_pre)
    ELSE {<<>>}

\* nms_pre of the model: the default -1 (no filter), 0, and counts below,
\* at and above the number of candidates
PreNmsPres == {-1, 0} \cup (1..(MaxPreCands + 1))

\* A level of up to MaxPreCands candidates: for each its highest foreground
\* score and its background score
PreInputs ==
    {[cands |-> c, use_sigmoid_cls |-> u, nms_pre |-> p] :
        <<c, u, p>> \in
            (UNION {[1..n -> (1..3) \X {1, 9}] : n \in 1..MaxPreCands})
                \X BOOLEAN \X PreNmsPres}

InitPre ==
    /\ pc = "pre_call"
    /\ bbox_in \in PreInputs
    /\ bbox_out = Idle
    /\ TrainIdle /\ OhemIdle /\ SegmIdle /\ SanIdle /\ MaskIdle

PreCall ==
    /\ pc = "pre_call"
    /\ LET n == Len(bbox_in.cands)
           ids == [k \in 1..n |-> k]
           scores == [k \in 1..n |->
                         PreScoreRow(bbox_in.cands[k][1], bbox_in.cands[k][2],
                                     bbox_in.use_sigmoid_cls)]
       IN  \E topk_inds \in PreTopkInds(scores, bbox_in.use_sigmoid_cls,
                                        bbox_in.nms_pre) :
               bbox_out' = PreFilterLevel(ids, ids, scores, ids,
                                          bbox_in.use_sigmoid_cls,
                                          bbox_in.nms_pre, topk_inds)
    /\ pc' = "pre_done"
    /\ UNCHANGED <<bbox_in, trainVars, ohemVars, segmVars, sanVars, maskVars>>

SpecPre == InitPre /\ [][PreCall]_vars

\* The level has more candidates than nms_pre allows
PreFilterOn == bbox_in.nms_pre > 0 /\ Len(bbox_in.cands) > bbox_in.nms_pre

\* The anchors of the candidates kept
PreKept == {bbox_out.bboxes[k][1] : k \in 1..Len(bbox_out.bboxes)}

\* C29: a level with more than nms_pre candidates (nms_pre > 0) keeps
\* exactly nms_pre of them, those of the highest maximum foreground score
\* (the background column left out under softmax), and any other level
\* keeps them all; every candidate kept has the box (anchor and delta), the
\* score row and the coefficients of one and the same anchor.
C29_PreFilterKeepsTopCandidates ==
    pc = "pre_done" =>
        LET n == Len(bbox_in.cands)
            kept == Len(bbox_out.bboxes)
        IN  /\ Len(bbox_out.scores) = kept /\ Len(bbox_out.coeffs) = kept
            /\ kept = (IF PreFilterOn THEN bbox_in.nms_pre ELSE n)
            /\ Cardinality(PreKept) = kept
            /\ \A a \in PreKept : \A b \in (1..n) \ PreKept :
                bbox_in.cands[a][1] >= bbox_in.cands[b][1]
            /\ \A k \in 1..kept :
                LET a == bbox_out.bboxes[k][1]
                IN  /\ a \in 1..n
                    /\ bbox_out.bboxes[k][2] = a
                    /\ bbox_out.coeffs[k] = a
                    /\ bbox_out.scores[k]
                           = PreScoreRow(bbox_in.cands[a][1], bbox_in.cands[a][2],
                                         bbox_in.use_sigmoid_cls)
            /\ ~PreFilterOn => \A k \in 1..n : bbox_out.bboxes[k][1] = k

\* C29 witness: under softmax, one candidate of three kept, and not the
\* first one nor one of the high background score
C29_Witness ==
    /\ pc = "pre_done"
    /\ ~bbox_in.use_sigmoid_cls
    /\ Len(bbox_in.cands) = 3
    /\ bbox_in.nms_pre = 1
    /\ bbox_in.cands[1] = <<2, 9>>
    /\ bbox_in.cands[2] = <<3, 1>>
    /\ bbox_out.bboxes = <<<<2, 2>>>>
    /\ bbox_out.coeffs = <<2>>

(***************************************************************************)
(* YOLACTHead._get_targets_single on one image.                            *)
(***************************************************************************)
\* train_cfg.pos_weight of the model; -1 is the value the configurations use
PosWeights == {-1, 0, 1, 2}

TargetCfgs ==
    [pos_weight : PosWeights, unmap_outputs : BOOLEAN]

\* The classes of the ground-truth boxes of one image
TargetGtLabelLists == TrainGtLabelLists \cup {<<0, 1>>, <<1, 0>>}

\* The image of the end-to-end scenario: one ground-truth box, matched by
\* anchors 3 and 7 and by no other; the last anchor inside or not
ScenarioImages ==
    {[inside |-> [a \in 1..ScenarioAnchors |-> a < ScenarioAnchors \/ last],
      assigned |-> [a \in 1..ScenarioAnchors |-> IF a \in {3, 7} THEN 1 ELSE 0],
      gt_labels |-> gl, gt_labels_given |-> TRUE] :
        <<last, gl>> \in BOOLEAN \X {<<0>>, <<1>>}}

\* An image of TargetAnchors anchors, with the outcome of anchor_inside_flags
\* for every anchor, the assigner's gt_inds for every anchor (0 on those
\* outside, which the assigner never sees), the classes of the ground-truth
\* boxes and whether the call was given them (gt_labels is not None)
TargetImages ==
    {[inside |-> ins, assigned |-> asg, gt_labels |-> gl,
      gt_labels_given |-> given] :
        <<ins, gl, asg, given>> \in
            {t \in [1..TargetAnchors -> BOOLEAN] \X TargetGtLabelLists
                     \X [1..TargetAnchors -> -1..MaxGts] \X BOOLEAN :
                \A a \in 1..TargetAnchors :
                    /\ t[3][a] <= Len(t[2])
                    /\ ~t[1][a] => t[3][a] = 0}}
    \cup ScenarioImages

InitTargets ==
    /\ pc = "single_call"
    /\ cfg \in TargetCfgs
    /\ batch \in TargetImages
    /\ targets = Idle
    /\ preds = Idle /\ head_loss = Idle /\ train_out = Idle
    /\ OhemIdle /\ SegmIdle /\ SanIdle /\ MaskIdle /\ BboxIdle

TargetsCall ==
    /\ pc = "single_call"
    /\ targets' = GetTargetsSingle(batch, cfg, cfg.unmap_outputs)
    /\ pc' = "single_done"
    /\ UNCHANGED <<cfg, batch, preds, head_loss, train_out>>
    /\ UNCHANGED <<ohemVars, segmVars, sanVars, maskVars, bboxVars>>

SpecTargets == InitTargets /\ [][TargetsCall]_vars

\* The anchors of the image
TargetAnchorSet == 1..Len(batch.inside)

\* The call returned targets, not the tuple of Nones
TargetsReturned ==
    /\ pc = "single_done"
    /\ \E a \in TargetAnchorSet : batch.inside[a]

\* Anchor a has an entry in the tensors returned
TargetEmitted(a) == cfg.unmap_outputs \/ batch.inside[a]

\* The position of anchor a in the tensors returned
TargetAt(a) ==
    IF cfg.unmap_outputs THEN a
    ELSE Cardinality({b \in 1..a : batch.inside[b]})

\* C18 as stated: an inside anchor assigned to background has label weight 1,
\* and a background-labelled anchor with label weight 0 is an anchor outside
\* the valid region.
C18_ZeroWeightOnlyOutside ==
    TargetsReturned =>
        \A a \in {b \in TargetAnchorSet : TargetEmitted(b)} :
            /\ (batch.inside[a] /\ batch.assigned[a] = 0)
               => targets[2].val[TargetAt(a)] = 1
            /\ (/\ targets[1].val[TargetAt(a)] = background_label
                /\ targets[2].val[TargetAt(a)] = 0)
               => ~batch.inside[a]

\* C18 amended: an inside anchor assigned to background has the background
\* label and label weight 1, and a background-labelled anchor with label
\* weight 0 is an anchor outside the valid region or one the assigner marked
\* as ignored (-1).
C18_ZeroWeightOutsideOrIgnored ==
    TargetsReturned =>
        \A a \in {b \in TargetAnchorSet : TargetEmitted(b)} :
            /\ (batch.inside[a] /\ batch.assigned[a] = 0)
               => (/\ targets[1].val[TargetAt(a)] = background_label
                   /\ targets[2].val[TargetAt(a)] = 1)
            /\ (/\ targets[1].val[TargetAt(a)] = background_label
                /\ targets[2].val[TargetAt(a)] = 0)
               => (~batch.inside[a] \/ batch.assigned[a] = -1)

\* C18 witness: a background anchor, an ignored anchor and an anchor outside
\* the valid region in one image, re-expanded.
C18_Witness ==
    /\ TargetsReturned
    /\ cfg.unmap_outputs
    /\ \E a, b, d \in TargetAnchorSet :
        /\ batch.inside[a] /\ batch.assigned[a] = 0
        /\ batch.inside[b] /\ batch.assigned[b] = -1
        /\ ~batch.inside[d]
        /\ targets[2].val[a] = 1 /\ targets[2].val[b] = 0 /\ targets[2].val[d] = 0

\* C19 as stated: the label weight of every positive anchor is
\* train_cfg.pos_weight.
C19_PositiveWeightIsConfigured ==
    TargetsReturned =>
        \A a \in TargetAnchorSet :
            (batch.inside[a] /\ batch.assigned[a] > 0)
            => targets[2].val[TargetAt(a)] = cfg.pos_weight

\* C19 amended: the label weight of every positive anchor is
\* train_cfg.pos_weight when that is positive, and 1 when it is zero or
\* negative.
C19_PositiveWeightOrOne ==
    TargetsReturned =>
        \A a \in TargetAnchorSet :
            (batch.inside[a] /\ batch.assigned[a] > 0)
            => targets[2].val[TargetAt(a)]
                   = (IF cfg.pos_weight > 0 THEN cfg.pos_weight ELSE 1)

\* C19 witness: a positive anchor under pos_weight 2 and one under -1.
C19_Witness ==
    /\ TargetsReturned
    /\ cfg.pos_weight = 2
    /\ \E a \in TargetAnchorSet :
        /\ batch.inside[a] /\ batch.assigned[a] > 0
        /\ targets[2].val[TargetAt(a)] = 2


\* The positions, in the tensors the assigner and the sampler see, of the
\* anchors that satisfy P
TargetValidInds(P(_)) ==
    {Cardinality({b \in 1..a : batch.inside[b]}) :
        a \in {b \in TargetAnchorSet : batch.inside[b] /\ P(b)}}

\* C21: in the targets of one image every positive anchor carries the class
\* of the ground truth it was assigned to (label 1 when the call was given
\* no labels), every sampled negative carries the background label with
\* weight 1, and every other valid anchor the background label with weight
\* 0; when one ground-truth box matches exactly anchors 3 and 7, the
\* positive set is {3, 7}, both carry its class and all others background.
C21_LabelsFollowAssignment ==
    TargetsReturned =>
        /\ \A a \in {b \in TargetAnchorSet : batch.inside[b]} :
            LET label == targets[1].val[TargetAt(a)]
                weight == targets[2].val[TargetAt(a)]
            IN  /\ batch.assigned[a] > 0 =>
                    label = (IF batch.gt_labels_given
                             THEN batch.gt_labels[batch.assigned[a]] ELSE 1)
                /\ batch.assigned[a] = 0 =>
                    (label = background_label /\ weight = 1)
                /\ batch.assigned[a] < 0 =>
                    (label = background_label /\ weight = 0)
        /\ SeqRange(targets[5].val)
               = TargetValidInds(LAMBDA a : batch.assigned[a] > 0)
        /\ SeqRange(targets[6].val)
               = TargetValidInds(LAMBDA a : batch.assigned[a] = 0)
        /\ batch \in ScenarioImages =>
            /\ SeqRange(targets[5].val) = {3, 7}
            /\ \A a \in {b \in TargetAnchorSet : TargetEmitted(b)} :
                targets[1].val[TargetAt(a)]
                    = (IF a \in {3, 7} THEN batch.gt_labels[1]
                       ELSE background_label)

\* C21 witness: the scenario image with its last anchor outside, targets
\* not re-expanded
C21_Witness ==
    /\ TargetsReturned
    /\ batch \in ScenarioImages
    /\ ~batch.inside[ScenarioAnchors]
    /\ ~cfg.unmap_outputs
    /\ targets[5].val = <<3, 7>>
    /\ targets[1].val[3] = batch.gt_labels[1]
    /\ Len(targets[1].val) = ScenarioAnchors - 1

\* An image given no labels, with a positive anchor of a ground truth of
\* class 0 and a sampled negative
NoLabelsGivenReached ==
    /\ TargetsReturned
    /\ ~batch.gt_labels_given
    /\ \E a, b \in TargetAnchorSet :
        /\ batch.inside[a] /\ batch.assigned[a] > 0
        /\ batch.gt_labels[batch.assigned[a]] = 0
        /\ targets[1].val[TargetAt(a)] = 1
        /\ batch.inside[b] /\ batch.assigned[b] = 0


\* C22: in the targets of one image the box regression weight of an anchor
\* is 1 (on its four coordinates) if the anchor is positive and 0 otherwise,
\* and the box regression target of every anchor that is not positive is
\* the zero vector.
C22_BoxWeightsMarkPositives ==
    TargetsReturned =>
        \A a \in {b \in TargetAnchorSet : TargetEmitted(b)} :
            LET positive == batch.inside[a] /\ batch.assigned[a] > 0
            IN  /\ targets[4].val[TargetAt(a)] = (IF positive THEN 1 ELSE 0)
                /\ ~positive => targets[3].val[TargetAt(a)] = 0

\* C22 witness: a positive anchor, a negative, an ignored one and one
\* outside the valid region, re-expanded
C22_Witness ==
    /\ TargetsReturned
    /\ cfg.unmap_outputs
    /\ \E a, b, d \in TargetAnchorSet :
        /\ batch.inside[a] /\ batch.assigned[a] > 0
        /\ batch.inside[b] /\ batch.assigned[b] <= 0
        /\ ~batch.inside[d]
        /\ targets[4].val[a] = 1 /\ targets[4].val[b] = 0 /\ targets[4].val[d] = 0
        /\ targets[3].val[a] # 0


(***************************************************************************)
(* YOLACTHead._get_targets_single: the call of the assigner.               *)
(***************************************************************************)
\* The assigners a configuration may name
AssignerTypes == {"MaxIoUAssigner", "ATSSAssigner", "ATSSmaIoUAssigner"}

\* YOLACTHead.__init__: self.iou_assign
iou_assign(assigner_type) ==
    IF assigner_type = "ATSSAssigner" \/ assigner_type = "ATSSmaIoUAssigner"
    THEN 0 ELSE 1

RECURSIVE split(_, _)
\* torch.split(tensor, sizes): consecutive chunks of the given sizes
split(tensor, sizes) ==
    IF sizes = <<>> THEN <<>>
    ELSE <<SubSeq(tensor, 1, Head(sizes))>>
         \o split(SubSeq(tensor, Head(sizes) + 1, Len(tensor)), Tail(sizes))

\* The anchor counts of the levels as they are, valid or not
NumLevelAnchorsAll(num_level_anchors, inside_flags) == num_level_anchors

\* YOLACTHead.get_num_level_anchors_inside
get_num_level_anchors_inside(num_level_anchors, inside_flags) ==
    LET split_inside_flags == split(inside_flags, num_level_anchors)
    IN  [l \in 1..Len(split_inside_flags) |->
            Len(nonzero(split_inside_flags[l], 0))]

\* The arguments _get_targets_single hands to self.assigner.assign, or no
\* call at all when no anchor is inside (the early return)
AssignArgs(assigner_type, sampling, num_level_anchors, inside_flags) ==
    IF \A a \in 1..Len(inside_flags) : ~inside_flags[a]
    THEN [called |-> FALSE, anchors |-> <<>>,
          num_level_anchors_inside |-> None, gt_labels_given |-> FALSE]
    ELSE IF iou_assign(assigner_type) = 1
    THEN [called |-> TRUE, anchors |-> nonzero(inside_flags, 0),
          num_level_anchors_inside |-> None,
          gt_labels_given |-> ~sampling]
    ELSE [called |-> TRUE, anchors |-> nonzero(inside_flags, 0),
          num_level_anchors_inside |->
              Some(get_num_level_anchors_inside(num_level_anchors, inside_flags)),
          gt_labels_given |-> TRUE]

\* The anchor grids of the model: up to MaxLevels levels of up to
\* MaxLevelAnchors anchors each, and no more than MaxLevels + MaxLevelAnchors
\* - 1 anchors in all
AssignGrids ==
    {g \in UNION {[1..k -> 1..MaxLevelAnchors] : k \in 1..MaxLevels} :
        SumSeq(g) <= MaxLevels + MaxLevelAnchors - 1}

AssignInputs ==
    UNION {{[assigner_type |-> t, sampling |-> sa, num_level_anchors |-> g,
             inside_flags |-> f] :
                <<t, sa, f>> \in AssignerTypes \X BOOLEAN
                                    \X [1..SumSeq(g) -> BOOLEAN]} :
            g \in AssignGrids}

InitAssign ==
    /\ pc = "assign_call"
    /\ san_in \in AssignInputs
    /\ san_out = Idle
    /\ TrainIdle /\ OhemIdle /\ SegmIdle /\ MaskIdle /\ BboxIdle

AssignCall ==
    /\ pc = "assign_call"
    /\ san_out' = AssignArgs(san_in.assigner_type, san_in.sampling,
                             san_in.num_level_anchors, san_in.inside_flags)
    /\ pc' = "assign_done"
    /\ UNCHANGED <<san_in, trainVars, ohemVars, segmVars, maskVars, bboxVars>>

SpecAssign == InitAssign /\ [][AssignCall]_vars

\* The configured assigner is of the adaptive statistical kind
AdaptiveAssigner == san_in.assigner_type \in {"ATSSAssigner", "ATSSmaIoUAssigner"}

\* The number of inside anchors among the anchors of level l
InsideOfLevel(l) ==
    LET before == SumSeq(SubSeq(san_in.num_level_anchors, 1, l - 1))
    IN  Cardinality({a \in (before + 1)..(before + san_in.num_level_anchors[l]) :
                        san_in.inside_flags[a]})

\* C25: the assigner is given per-level anchor counts exactly when the
\* adaptive statistical variant is configured; the counts are the numbers of
\* inside anchors of the levels: one per level, none above the level's
\* anchor count, adding up to the number of anchors handed to the assigner.
C25_LevelCountsForAdaptiveOnly ==
    (pc = "assign_done" /\ san_out.called) =>
        /\ ~san_out.num_level_anchors_inside.none <=> AdaptiveAssigner
        /\ AdaptiveAssigner =>
            LET counts == san_out.num_level_anchors_inside.val
            IN  /\ Len(counts) = Len(san_in.num_level_anchors)
                /\ \A l \in 1..Len(counts) :
                    /\ counts[l] = InsideOfLevel(l)
                    /\ counts[l] <= san_in.num_level_anchors[l]
                /\ SumSeq(counts) = Len(san_out.anchors)

\* C25 witness: an adaptive assigner on a grid of several levels, one of
\* them with an anchor outside and one with none inside
C25_Witness ==
    /\ pc = "assign_done"
    /\ san_out.called
    /\ san_in.assigner_type = "ATSSmaIoUAssigner"
    /\ Len(san_in.num_level_anchors) = MaxLevels
    /\ \E l, k \in 1..MaxLevels :
        /\ san_out.num_level_anchors_inside.val[l] = 0
        /\ san_out.num_level_anchors_inside.val[k] > 0
        /\ san_out.num_level_anchors_inside.val[k] < san_in.num_level_anchors[k]

(***************************************************************************)
(* YOLACT.simple_test and YOLACTProtonet.get_seg_masks.                    *)
(***************************************************************************)
\* np.round of the fraction num / den (num >= 0, den > 0): to the nearest
\* integer, a tie to the even one
np_round(num, den) ==
    LET q == num \div den
        r == num % den
    IN  IF 2 * r < den THEN q
        ELSE IF 2 * r > den THEN q + 1
        ELSE IF q % 2 = 0 THEN q ELSE q + 1

\* Height taken with the width's scale and width with the height's
SegImgSizeSwapped(ori_shape, scale_factor, rescale) ==
    IF rescale THEN <<ori_shape[1], ori_shape[2]>>
    ELSE <<np_round(ori_shape[1] * scale_factor[1][1], scale_factor[1][2]),
           np_round(ori_shape[2] * scale_factor[2][1], scale_factor[2][2])>>

\* <<img_h, img_w>> of get_seg_masks; ori_shape is <<h, w>> and scale_factor
\* is <<w_scale, h_scale, w_scale, h_scale>>, every scale a fraction <<num, den>>
SegImgSize(ori_shape, scale_factor, rescale) ==
    IF rescale THEN <<ori_shape[1], ori_shape[2]>>
    ELSE <<np_round(ori_shape[1] * scale_factor[2][1], scale_factor[2][2]),
           np_round(ori_shape[2] * scale_factor[1][1], scale_factor[1][2])>>

\* mmcv.imresize(img, size): size is (w, h), the result has h rows and w
\* columns; every cell takes the value of the source cell it falls in (the
\* maps of the model are flat, so interpolation gives the same values)
imresize(img, size) ==
    [r \in 1..size[2] |-> [c \in 1..size[1] |->
        img[((r - 1) * Len(img)) \div size[2] + 1]
           [((c - 1) * Len(img[1])) \div size[1] + 1]]]

\* (im_mask > 0.5).astype(np.uint8), values in hundredths
Binarize(im_mask) ==
    [r \in 1..Len(im_mask) |-> [c \in 1..Len(im_mask[r]) |->
        IF im_mask[r][c] > 50 THEN 1 ELSE 0]]

\* cls_segms after the loop: bucket l + 1 holds, in the order of the loop,
\* the masks of the iterations whose label is l
SegBucket(resized, label_pred, num_classes) ==
    [l \in 1..num_classes |->
        LET its == nonzero([k \in 1..Len(resized) |-> label_pred[k] = l - 1], 0)
        IN  [k \in 1..Len(its) |-> resized[its[k]]]]

\* YOLACTProtonet.get_seg_masks: zip stops at the shorter of mask_pred and
\* label_pred
get_seg_masks(mask_pred, label_pred, img_meta, rescale, num_classes) ==
    LET size == SegImgSize(img_meta.ori_shape, img_meta.scale_factor, rescale)
        img_h == size[1]
        img_w == size[2]
        n == Min(Len(mask_pred), Len(label_pred))
        resized == [k \in 1..n |-> Binarize(imresize(mask_pred[k], <<img_w, img_h>>))]
    IN  SegBucket(resized, label_pred, num_classes)

\* The mask head at test time on a detection whose box is the whole image,
\* with one prototype map of ones: sigmoid(prototypes @ coeff.t()), one map
\* per row of det_coeffs, untouched by crop
SegMaskPred(det_coeffs) ==
    [k \in 1..Len(det_coeffs) |->
        [r \in 1..ProtoShape[1] |-> [c \in 1..ProtoShape[2] |->
            sigmoid(det_coeffs[k])]]]

\* YOLACT.simple_test after get_bboxes: the mask results of the image
SimpleTestMasks(det_labels, det_coeffs, img_meta, rescale) ==
    get_seg_masks(SegMaskPred(det_coeffs), det_labels, img_meta, rescale, NumClasses)

\* The scale factors of the model: 3/4, 1 and 3/2
SegScales == {<<3, 4>>, <<1, 1>>, <<3, 2>>}

\* The detections get_bboxes hands over (a label and a coefficient each),
\* the image's meta data and the rescale flag
SegInputs ==
    {[det_labels |-> [k \in 1..Len(d) |-> d[k][1]],
      det_coeffs |-> [k \in 1..Len(d) |-> d[k][2]],
      img_meta |-> [ori_shape |-> <<h, w>>, scale_factor |-> <<ws, hs, ws, hs>>],
      rescale |-> re] :
        <<d, h, w, ws, hs, re>> \in
            (UNION {[1..n -> (0..(NumClasses - 1)) \X {-1, 0, 1}] : n \in 0..MaxBoxes})
                \X (1..MaxSize) \X (1..MaxSize) \X SegScales \X SegScales \X BOOLEAN}

InitSeg ==
    /\ pc = "seg_call"
    /\ mask_in \in SegInputs
    /\ mask_out = Idle
    /\ TrainIdle /\ OhemIdle /\ SegmIdle /\ SanIdle /\ BboxIdle

SegCall ==
    /\ pc = "seg_call"
    /\ mask_out' = SimpleTestMasks(mask_in.det_labels, mask_in.det_coeffs,
                                   mask_in.img_meta, mask_in.rescale)
    /\ pc' = "seg_done"
    /\ UNCHANGED <<mask_in, trainVars, ohemVars, segmVars, sanVars, bboxVars>>

SpecSeg == InitSeg /\ [][SegCall]_vars

\* The detections of label l, in detection order
SegDetsOfLabel(l) ==
    nonzero([k \in 1..Len(mask_in.det_labels) |-> mask_in.det_labels[k] = l], 0)

\* The output size asked for: the original shape when rescale is set, else
\* the original height and width times their scales, to the nearest integer
SegRequestedSize(size) ==
    LET ori == mask_in.img_meta.ori_shape
        w_scale == mask_in.img_meta.scale_factor[1]
        h_scale == mask_in.img_meta.scale_factor[2]
    IN  IF mask_in.rescale THEN size = ori
        ELSE /\ 2 * h_scale[2] * size[1] <= 2 * ori[1] * h_scale[1] + h_scale[2]
             /\ 2 * h_scale[2] * size[1] >= 2 * ori[1] * h_scale[1] - h_scale[2]
             /\ 2 * w_scale[2] * size[2] <= 2 * ori[2] * w_scale[1] + w_scale[2]
             /\ 2 * w_scale[2] * size[2] >= 2 * ori[2] * w_scale[1] - w_scale[2]

\* C20: the inference call returns one binary mask per detection: the masks
\* of all class buckets together are as many as the detections, the mask of
\* a detection sits in the bucket of its label at its rank among the
\* detections of that label, and every mask has the requested size.
C20_OneMaskPerDetection ==
    pc = "seg_done" =>
        /\ Len(mask_out) = NumClasses
        /\ SumSeq([l \in 1..NumClasses |-> Len(mask_out[l])])
               = Len(mask_in.det_labels)
        /\ \A l \in 0..(NumClasses - 1) :
            LET its == SegDetsOfLabel(l)
            IN  /\ Len(mask_out[l + 1]) = Len(its)
                /\ \A k \in 1..Len(its) :
                    LET m == mask_out[l + 1][k]
                        bit == IF sigmoid(mask_in.det_coeffs[its[k]]) > 50
                               THEN 1 ELSE 0
                    IN  /\ Len(m) > 0
                        /\ \A r \in 1..Len(m) :
                            /\ Len(m[r]) = Len(m[1])
                            /\ \A c \in 1..Len(m[r]) : m[r][c] = bit
                        /\ SegRequestedSize(<<Len(m), Len(m[1])>>)

\* Two detections of one label with different masks, one of another label
\* or not, on an image whose scales differ, without rescale
C20_Witness ==
    /\ pc = "seg_done"
    /\ ~mask_in.rescale
    /\ mask_in.img_meta.ori_shape[1] = mask_in.img_meta.ori_shape[2]
    /\ Len(mask_out[1]) = 2
    /\ Len(mask_out[1][1]) # Len(mask_out[1][1][1])
    /\ mask_out[1][1] # mask_out[1][2]

(***************************************************************************)
(* YOLACT.forward_train, step by step.                                     *)
(***************************************************************************)
\* The images of the batch model: the outcome of anchor_inside_flags for every
\* anchor, the assigner's gt_inds for every anchor (0 on those outside, which
\* the assigner never sees) and the ground-truth labels
TrainImages ==
    LET num_anchors == SumSeq(TrainLevelAnchors)
    IN  {[inside |-> ins, assigned |-> asg, gt_labels |-> gl,
          gt_labels_given |-> TRUE] :
            <<ins, gl, asg>> \in
                {t \in [1..num_anchors -> BOOLEAN] \X TrainGtLabelLists
                         \X [1..num_anchors -> -1..1] :
                    \A a \in 1..num_anchors :
                        /\ t[3][a] <= Len(t[2])
                        /\ ~t[1][a] => t[3][a] = 0}}

\* The head configurations: use_ohem sets sampling to False (lines 73-76);
\* otherwise AnchorHead decides it from the classification loss
TrainCfgs ==
    {[use_ohem |-> o, sampling |-> s, pos_weight |-> -1, neg_pos_ratio |-> 3] :
        <<o, s>> \in {<<TRUE, FALSE>>, <<FALSE, TRUE>>, <<FALSE, FALSE>>}}

\* len(img_metas) = num_imgs; gt_bboxes, gt_labels and gt_masks hold gt_len
\* entries each; imgs are the images that have both
TrainBatches ==
    {[num_imgs |-> n, gt_len |-> g, imgs |-> im] :
        <<n, g, im>> \in
            {t \in (1..MaxImgs) \X (1..MaxImgs) \X
                   UNION {[1..k -> TrainImages] : k \in 1..MaxImgs} :
                Len(t[3]) = Min(t[1], t[2])}}

PredCases ==
    {[cls_finite |-> TRUE, bbox_finite |-> TRUE],
     [cls_finite |-> FALSE, bbox_finite |-> TRUE],
     [cls_finite |-> TRUE, bbox_finite |-> FALSE]}

NoTrainOut ==
    [exc |-> "", returned |-> FALSE, losses_finite |-> TRUE,
     zero_area |-> FALSE, loss_segm |-> <<>>, loss_mask |-> <<>>]

\* The mask of every ground-truth instance of the batch model
TrainGtMask == [r \in 1..(2 * SegmShape[1]) |-> [c \in 1..(2 * SegmShape[2]) |-> 1]]

\* segm_head.loss(segm_head_outs, gt_masks, gt_labels) of forward_train
TrainLossSegm(b) ==
    [idx \in 1..Len(b.imgs) |->
        SegmLossImage(NumClasses, SegmShape[1], SegmShape[2],
                      [o \in 1..Len(b.imgs[idx].gt_labels) |-> TrainGtMask],
                      b.imgs[idx].gt_labels)]

\* mask_head.loss(mask_pred, gt_masks, gt_bboxes, img_metas, sampling_results)
\* of forward_train; no image of the model has more positives than the cap
TrainLossMask(b, sampling_results) ==
    ProtonetLoss([idx \in 1..Len(b.imgs) |->
                     [num_gts |-> Len(b.imgs[idx].gt_labels),
                      pos_assigned_gt_inds |->
                          sampling_results[idx].pos_assigned_gt_inds]],
                 MaxMasksToTrain,
                 [idx \in 1..Len(b.imgs) |-> <<>>])

InitTrain ==
    /\ pc = "start"
    /\ cfg \in TrainCfgs
    /\ batch \in TrainBatches
    /\ preds = [cls_finite |-> TRUE, bbox_finite |-> TRUE]
    /\ targets = NoTargets("", FALSE)
    /\ head_loss = NoLoss("", FALSE)
    /\ train_out = NoTrainOut
    /\ OhemIdle /\ SegmIdle /\ SanIdle /\ MaskIdle /\ BboxIdle

\* The get_targets call of YOLACTHead.loss, with unmap_outputs = not use_ohem
HeadGetTargets ==
    /\ pc = "start"
    /\ targets' = GetTargets(batch, cfg, TrainLevelAnchors, ~cfg.use_ohem)
    /\ pc' = "targets"
    /\ UNCHANGED <<cfg, batch, preds, head_loss, train_out>>
    /\ UNCHANGED <<ohemVars, segmVars, sanVars, maskVars, bboxVars>>

\* The rest of YOLACTHead.loss, on the predictions the head made
HeadLoss ==
    /\ pc = "targets"
    /\ \E p \in PredCases :
        /\ preds' = p
        /\ head_loss' = Loss(batch, cfg, p, targets, TrainLevelAnchors)
    /\ pc' = "loss"
    /\ UNCHANGED <<cfg, batch, targets, train_out>>
    /\ UNCHANGED <<ohemVars, segmVars, sanVars, maskVars, bboxVars>>

\* The rest of YOLACT.forward_train: unpack the head's result, add the
\* segmentation and mask losses, check every loss for NaN and Inf
\* The mask loss of one image is a finite number: its predictions are, and
\* no trained instance is reweighted by a ground-truth box of zero width or
\* height (loss.mean / gt_bboxes_width / gt_bboxes_height)
MaskLossFinite(kind, pred_finite, zero_area) ==
    pred_finite /\ ~(kind = "weighted_bce" /\ zero_area)

\* No check of the losses
FinitenessAssertOff(finite) == ""

\* check NaN and Inf: the assertion on every entry of the loss mapping
FinitenessAssert(finite) == IF finite THEN "" ELSE "AssertionError"

\* forward_train after bbox_head.loss: aux_finite tells whether the
\* predictions of the segmentation and mask heads are finite, zero_area
\* whether the ground-truth boxes of the batch have zero width or height
TrainOut(b, hl, aux_finite, zero_area) ==
    IF hl.exc # "" THEN [NoTrainOut EXCEPT !.exc = hl.exc]
    ELSE IF hl.none
    THEN [NoTrainOut EXCEPT !.exc = "TypeError"]   \* unpacking None
    ELSE
    LET loss_mask == TrainLossMask(b, hl.sampling_results)
        finite == /\ hl.finite
                  /\ \A idx \in 1..Len(loss_mask) :
                        MaskLossFinite(loss_mask[idx].kind, aux_finite, zero_area)
        exc == FinitenessAssert(finite)
    IN  [exc |-> exc, returned |-> exc = "", losses_finite |-> finite,
         zero_area |-> zero_area,
         loss_segm |-> TrainLossSegm(b), loss_mask |-> loss_mask]

\* What the rest of forward_train can meet, as <<aux_finite, zero_area>>:
\* nothing when bbox_head.loss raised or its result fails to unpack, and a
\* box of zero width or height only in a batch that has a ground-truth box
AuxCases(b, hl) ==
    IF hl.exc # "" \/ hl.none THEN {<<TRUE, FALSE>>}
    ELSE {<<TRUE, FALSE>>, <<FALSE, FALSE>>}
         \cup {c \in {<<TRUE, TRUE>>} :
                    \E idx \in 1..Len(b.imgs) : Len(b.imgs[idx].gt_labels) > 0}

TrainFinish ==
    /\ pc = "loss"
    /\ \E c \in AuxCases(batch, head_loss) :
        train_out' = TrainOut(batch, head_loss, c[1], c[2])
    /\ pc' = "done"
    /\ UNCHANGED <<cfg, batch, preds, targets, head_loss>>
    /\ UNCHANGED <<ohemVars, segmVars, sanVars, maskVars, bboxVars>>

NextTrain == HeadGetTargets \/ HeadLoss \/ TrainFinish

Spec == InitTrain /\ [][NextTrain]_vars

(***************************************************************************)
(* Properties of the training call.                                        *)
(***************************************************************************)
\* The batch is well formed: one ground-truth entry per image
WellFormed == batch.num_imgs = batch.gt_len

\* Image i of the batch has no anchor inside the valid region
NoValidAnchors(i) ==
    \A a \in 1..Len(batch.imgs[i].inside) : ~batch.imgs[i].inside[a]

\* The number of positive anchors of image i, counted on the inputs
NumPos(i) ==
    Cardinality({a \in 1..Len(batch.imgs[i].inside) :
                    batch.imgs[i].inside[a] /\ batch.imgs[i].assigned[a] > 0})

\* The targets of image i as the loss consumes them: its per-level slices
\* joined over the levels
TargetRow(level_list, i) ==
    CatSeqs([l \in 1..Len(level_list) |-> level_list[l][i]])

\* C1: whenever an image of a (well-formed) batch has no anchor inside the
\* valid region, get_targets returns None for the batch and does not raise.
C1_NoValidAnchorsSentinel ==
    (/\ pc # "start"
     /\ WellFormed
     /\ \E i \in 1..Len(batch.imgs) : NoValidAnchors(i))
    => (targets.exc = "" /\ targets.none)

\* C2: on a batch with an image without valid anchors (finite predictions),
\* the head's loss reports the no-valid-anchors outcome and forward_train
\* does not raise.
C2_TrainSurvivesNoValidAnchors ==
    (/\ pc \in {"loss", "done"}
     /\ WellFormed
     /\ preds.cls_finite /\ preds.bbox_finite
     /\ \E i \in 1..Len(batch.imgs) : NoValidAnchors(i))
    => (/\ head_loss.exc = ""
        /\ head_loss.none
        /\ pc = "done" => train_out.exc = "")

\* The hard-negative-mining loss produced its per-image values
OhemLossesProduced ==
    /\ pc \in {"loss", "done"}
    /\ cfg.use_ohem
    /\ head_loss.exc = ""
    /\ ~head_loss.none

NonFinitePreds == ~preds.cls_finite \/ ~preds.bbox_finite

\* Target assignment went through for a well-formed batch
TargetsReady ==
    /\ pc \in {"loss", "done"}
    /\ WellFormed
    /\ targets.exc = ""
    /\ ~targets.none

\* C7 as stated: under every configuration the loss call of the box head
\* raises the assertion on a non-finite prediction, before any loss value.
C7_AssertsUnderEveryConfig ==
    (TargetsReady /\ NonFinitePreds)
    => (head_loss.exc = "AssertionError" /\ head_loss.losses = <<>>)

\* C7 amended: with use_ohem the loss call raises on a non-finite prediction
\* before any per-image loss value is produced (the finiteness assertion,
\* unless target assignment raised before it); without use_ohem the head
\* makes no finiteness check and returns its per-level losses.
C7_AssertsOnlyWithOhem ==
    /\ (pc \in {"loss", "done"} /\ cfg.use_ohem /\ NonFinitePreds)
       => (/\ head_loss.exc # ""
           /\ head_loss.losses = <<>>
           /\ TargetsReady => head_loss.exc = "AssertionError")
    /\ (TargetsReady /\ ~cfg.use_ohem /\ NonFinitePreds)
       => (/\ head_loss.exc = ""
           /\ head_loss.losses # <<>>
           /\ ~head_loss.finite)

\* C7 witness: the assertion fired on non-finite box predictions.
C7_Witness ==
    /\ TargetsReady
    /\ cfg.use_ohem
    /\ ~preds.bbox_finite
    /\ head_loss.exc = "AssertionError"

\* C8: the targets the loss consumes have one entry per anchor of the full
\* anchor list, and an anchor outside the valid region carries the
\* background label and zero weights, with use_ohem as without.
C8_TargetsCoverAllAnchors ==
    (pc # "start" /\ targets.exc = "" /\ ~targets.none)
    => \A i \in 1..Len(batch.imgs) :
        LET labels == TargetRow(targets.labels_list, i)
            label_weights == TargetRow(targets.label_weights_list, i)
            bbox_targets == TargetRow(targets.bbox_targets_list, i)
            bbox_weights == TargetRow(targets.bbox_weights_list, i)
            num_anchors == Len(batch.imgs[i].inside)
        IN  /\ Len(labels) = num_anchors
            /\ Len(label_weights) = num_anchors
            /\ Len(bbox_targets) = num_anchors
            /\ Len(bbox_weights) = num_anchors
            /\ \A a \in 1..num_anchors :
                ~batch.imgs[i].inside[a] =>
                    /\ labels[a] = background_label
                    /\ label_weights[a] = 0
                    /\ bbox_weights[a] = 0

\* The tensor t holds v in every element
SegmAll(t, v) ==
    \A ch \in 1..Len(t) : \A r \in 1..Len(t[ch]) : \A c \in 1..Len(t[ch][r]) :
        t[ch][r][c] = v

\* Image i of the batch has an empty ground-truth list
EmptyGt(i) == batch.imgs[i].gt_labels = <<>>

\* C17: for an image of a (well-formed) batch whose ground-truth list is
\* empty, and finite predictions, target assignment gives the background
\* label on every anchor and an empty positive set, the mask loss of the
\* image is exactly zero, its segmentation loss is taken against an all-zero
\* target with all-zero weights, and nothing raises (the assertion on the
\* finiteness of the losses set apart: the other heads' values are free).
C17_EmptyGroundTruthHandled ==
    \A i \in 1..Len(batch.imgs) :
        (/\ WellFormed
         /\ EmptyGt(i)
         /\ preds.cls_finite /\ preds.bbox_finite)
        => /\ pc # "start" =>
                /\ targets.exc = ""
                /\ ~targets.none
                /\ LET labels == TargetRow(targets.labels_list, i)
                   IN  /\ Len(labels) = Len(batch.imgs[i].inside)
                       /\ \A a \in 1..Len(labels) : labels[a] = background_label
                /\ targets.sampling_results[i].pos_inds = <<>>
           /\ (pc = "done" /\ train_out.exc # "AssertionError") =>
                /\ train_out.exc = ""
                /\ train_out.loss_mask[i].kind = "zero"
                /\ SegmAll(train_out.loss_segm[i].target, 0)
                /\ SegmAll(train_out.loss_segm[i].weight, 0)

\* Away from the images without a valid anchor and from use_ohem, the
\* empty ground-truth list is handled as C17 says
EmptyGtHandledWithValidAnchors ==
    \A i \in 1..Len(batch.imgs) :
        (/\ WellFormed
         /\ EmptyGt(i)
         /\ preds.cls_finite /\ preds.bbox_finite
         /\ ~cfg.use_ohem
         /\ \A j \in 1..Len(batch.imgs) : ~NoValidAnchors(j)
         /\ pc = "done"
         /\ train_out.exc # "AssertionError")
        => /\ targets.exc = ""
           /\ train_out.exc = ""
           /\ \A a \in 1..Len(batch.imgs[i].inside) :
                 TargetRow(targets.labels_list, i)[a] = background_label
           /\ targets.sampling_results[i].pos_inds = <<>>
           /\ train_out.loss_mask[i].kind = "zero"
           /\ SegmAll(train_out.loss_segm[i].target, 0)
           /\ SegmAll(train_out.loss_segm[i].weight, 0)

\* The targets of image i on its full, flat anchor list: the tuple
\* _get_targets_single gives with the outputs mapped back
FlatTargets(i) == GetTargetsSingle(batch.imgs[i], cfg, TRUE)

\* C24: batching keeps every target at its anchor: the per-level tensors of
\* get_targets, joined over the levels as the hard-negative-mining path
\* does, give for image i its target vector in the flat anchor order, of the
\* length and order of row i of the joined per-level predictions (one entry
\* per anchor of the grid).
C24_BatchingKeepsAlignment ==
    (pc # "start" /\ targets.exc = "" /\ ~targets.none)
    => \A i \in 1..Len(batch.imgs) :
        LET num_anchors == SumSeq(TrainLevelAnchors)
            Aligned(level_list, k) ==
                LET row == TargetRow(level_list, i)
                IN  /\ Len(row) = num_anchors
                    /\ \A a \in 1..num_anchors : row[a] = FlatTargets(i)[k].val[a]
        IN  /\ Aligned(targets.labels_list, 1)
            /\ Aligned(targets.label_weights_list, 2)
            /\ Aligned(targets.bbox_targets_list, 3)
            /\ Aligned(targets.bbox_weights_list, 4)

\* C26: a training call returns a loss mapping of finite values or raises:
\* forward_train never returns a mapping with a NaN or infinite loss, a
\* positive anchor matched to a ground-truth box of zero width or height
\* included.
C26_ReturnsFiniteOrRaises ==
    pc = "done" =>
        /\ train_out.returned <=> train_out.exc = ""
        /\ train_out.returned => train_out.losses_finite
        /\ (/\ train_out.zero_area
            /\ head_loss.exc = "" /\ ~head_loss.none
            /\ \E i \in 1..Len(batch.imgs) : NumPos(i) > 0)
           => (~train_out.returned /\ train_out.exc = "AssertionError")

\* C26 witness: finite predictions, a positive anchor on a ground-truth box
\* of zero area, and the call raised on the mask loss
C26_Witness ==
    /\ pc = "done"
    /\ train_out.zero_area
    /\ head_loss.exc = "" /\ ~head_loss.none /\ head_loss.finite
    /\ \E i \in 1..Len(batch.imgs) :
        /\ NumPos(i) > 0
        /\ train_out.loss_mask[i].kind = "weighted_bce"
    /\ train_out.exc = "AssertionError"
    /\ ~train_out.losses_finite

====
